---- MODULE Spec2Model ----
(***************************************************************************)
(* Carnot-battery advanced exergy analysis (heat pump and ORC).           *)
(*                                                                         *)
(* Three specifications share this module:                                *)
(*   SpecSolver  the Newton loop of hp_simultaneous / orc_simultaneous    *)
(*               and the assembly of residual, derivatives and Jacobian;  *)
(*   SpecSearch  the design-pressure search find_opt_p12 / find_opt_p33;  *)
(*   SpecDriver  the decomposition drivers main_serial and                *)
(*               main_multiprocess with the runs of perform_adex_*;       *)
(*   SpecLoops   either loop on its own, solver or search;                *)
(*   SpecRun     one run of perform_adex_hp / perform_adex_orc;           *)
(*   SpecConfig  set_adex_hp_config / set_adex_orc_config;                *)
(*   SpecPost    post_process_adex_hp.                                    *)
(*                                                                         *)
(* Numbers the property oracle would supply are not computed.  An entry   *)
(* of the unknown vector is the record [q, it]: the quantity its start    *)
(* value was read from and the number of Newton updates applied to it.    *)
(* A residual vector holds integers in units of the tolerance 1e-4.       *)
(* Positions are 0-based as in the source; sequences are read with At.    *)
(***************************************************************************)
EXTENDS Integers, Sequences, FiniteSets, TLC

\* ---- bounds of the model ----
\* Newton iterations explored per solve (the loop itself has no cap)
MaxIter == 3
\* search steps explored per design-pressure search (the loop has no cap)
MaxSearchSteps == 3
\* largest worker count of the multiprocessing pool that is explored
MaxWorkers == 4
\* longest argument list given to set_adex_hp_config / set_adex_orc_config
MaxArgs == 5

VARIABLES
  cycle,       \* "hp" or "orc": which module runs
  config,      \* component name -> BOOLEAN, TRUE is 'real'
  adex,        \* the adex flag of the solve
  epsilon,     \* "loaded" when <cycle>_comps_real.csv could be read, else "None"
  parameters,  \* pressure ratios and approach temperatures of the heat exchangers: name -> where the value is from
  variables,   \* the unknown vector
  residual,    \* [at: iterate it was evaluated at, val: the vector, calls: the calls that gave it]
  derivs,      \* the <slot>_j derivative calls of the last pass, in slot order
  jacobian,    \* [shape, cells]: cells maps a written <<i, j>> to the partial put there
  iter_step,   \* number of Newton updates applied
  solver_pc,   \* "iterating", "converged", "error" (an exception left the loop)
  df_streams,  \* the stream table built after the loop, <<>> before
  p_opt_start,       \* find_opt argument: the design pressure to start from, Pa
  min_t_diff_start,  \* find_opt argument: pinch difference of the first solve, mK
  target_min_td,     \* target pinch difference, mK
  min_t_diff,        \* pinch difference the next adjustment is computed from, mK
  p_opt,             \* the design pressure, Pa
  diff,              \* distance from the target that the loop tests, mK
  step,              \* number of search steps taken
  search_pc,         \* "start", "loop", "done", "error"; "idle" outside a search
  solves,            \* the solves that have returned, in call order: [p, config, adex, unavoid, pinch]
  mode,         \* "serial" (main_serial) or "multi" (main_multiprocess); "none" outside a driver
  unavoid,      \* the unavoid argument of the driver
  nworkers,     \* processes of multiprocessing.Pool(), 0 in serial mode
  driver_pc,    \* "runs", "pool", "map", "done", "error"; "idle" outside a driver
  next_run,     \* 1-based index of the next run of the parent process
  cur_run,      \* index of the run in progress in the parent process, 0 if none
  started,      \* one record per run that has started
  nstarted,     \* number of runs that have started
  finished,     \* labels of the runs that have returned
  files,        \* the csv files written so far
  df_ed_base,   \* rows of the exergy-destruction table of the base run (multi)
  df_ed,        \* rows of the exergy-destruction table of the driver
  chunks,       \* the task batches of pool.starmap, in task order
  balance,      \* the global energy balance of the last solve, a linear form
  performance,  \* the third value the last solve returned (cop / efficiency): [num, den], linear forms
  stdout,       \* the lines printed so far
  ledger,       \* df_adex_analysis: component k -> its columns, linear forms in the values of the runs
  overtaken,    \* a pooled run has returned while a task before it in the list had not
  run_label,    \* perform_adex argument: label
  run_save,     \* perform_adex argument: save
  run_calc_epsilon,  \* perform_adex argument: calc_epsilon
  run_pc,       \* "solve1", "search", "solve3", "record", "returned", "raised"; "idle" outside a run
  df_opt,       \* the stream table of the last solve of a run: which checks it fails
  failed,       \* a solve of the run has raised
  arg_seq,      \* set_adex_*_config: the argument names given
  cfg_label,    \* the label returned, <<>> before
  cfg_pc,       \* "call", "done"; "idle" outside
  analysis_csv,     \* what the two hp_adex_analysis.csv hold: [base, unavoid], <<>> for a missing file
  results_base,     \* hp_adex_analysis.csv as read by post_process_adex_hp
  results_unavoid,  \* hp_unavoid/hp_adex_analysis.csv as read
  final_results,    \* the table final_results: component -> its columns, in 0.01 kW
  post_pc,      \* "call", "read", "computed", "done", "raised"; "idle" outside
  hx_dec,       \* heat_exchanger: the decision vector dec_vect
  hx_m,         \* heat_exchanger: [hot, cold], the two mass flows
  hx_h,         \* heat_exchanger: [hot_in, hot_out, cold_in, cold_out], the four enthalpies
  hx_pc,        \* "call", "returned"; "idle" outside
  module_pc,    \* execution of the module hp_simult.py: "main", "post", "in_post", "end", "raised"; "idle" outside
  passes        \* the unavoid arguments of the driver passes that have completed in this execution

solverVars == <<cycle, config, adex, epsilon, parameters, variables, residual, derivs, jacobian, iter_step, solver_pc, df_streams>>

searchVars == <<p_opt_start, min_t_diff_start, target_min_td, min_t_diff, p_opt, diff, step, search_pc, solves>>

driverVars == <<mode, unavoid, nworkers, driver_pc, next_run, cur_run, started, nstarted, finished, files, df_ed_base, df_ed, chunks>>

outVars == <<balance, performance, stdout>>

ledgerVars == <<ledger, overtaken>>

runVars == <<run_label, run_save, run_calc_epsilon, run_pc, df_opt, failed>>

cfgVars == <<arg_seq, cfg_label, cfg_pc>>

postVars == <<analysis_csv, results_base, results_unavoid, final_results, post_pc>>

hxVars == <<hx_dec, hx_m, hx_h, hx_pc>>

moduleVars == <<module_pc, passes>>

otherVars == <<ledgerVars, runVars, cfgVars, postVars, hxVars, moduleVars>>

vars == <<solverVars, searchVars, driverVars, outVars, otherVars>>

\* ---- symbolic terms ----
\* variables[k]
V(k) == [t |-> "var", k |-> k, n |-> ""]
\* a constant of the run: a parameter, a literal, a fluid name
K(n) == [t |-> "const", k |-> -1, n |-> n]
\* epsilon[c], the exergetic efficiency of component c in the real case
Eps(c) == [t |-> "eps", k |-> -1, n |-> c]
\* a call <rel>_func(args) or <rel>_deriv(args)
Call(rel, form, args) == [rel |-> rel, form |-> form, args |-> args]
\* jacobian[i, j] = <name of residual slot `slot`>_j[key]
W(i, j, slot, key) == [i |-> i, j |-> j, slot |-> slot, key |-> key]
\* name = src in the extraction after the loop
X(q, src) == [q |-> q, src |-> src]
\* name = PSI(out, 'H', h, 'P', p, fluid)
P(q, out, h, p, fluid) == [q |-> q, out |-> out, h |-> h, p |-> p, fluid |-> fluid]
\* df_streams.loc[node] = [m, T, h, p, s, fluid]
Row(node, m, T, h, p, s, fluid) == [node |-> node, m |-> m, T |-> T, h |-> h, p |-> p, s |-> s, fluid |-> fluid]
\* 0-based read of a sequence
At(seq, k) == seq[k + 1]
Range(seq) == {seq[i] : i \in 1..Len(seq)}

\* ---- component keys of a configuration ----
\* config_keys of set_adex_hp_config
hp_config_keys == <<"comp", "cond", "ihx", "val", "eva">>
\* config_keys of set_adex_orc_config
orc_config_keys == <<"pump", "eva", "exp", "ihx", "cond">>
config_keys(cyc) == IF cyc = "hp" THEN hp_config_keys ELSE orc_config_keys

\* ---- the equation library ----
\* parameter names of a relation, in call order; <rel>_deriv returns its
\* partials under these names
Signature(rel) ==
  CASE rel = "pr" -> <<"pr", "p_1", "p_2">>
    [] rel = "eta_s_compressor" -> <<"eta_s", "h_1", "p_1", "h_2", "p_2", "fluid">>
    [] rel = "eta_s_expander" -> <<"eta_s", "h_1", "p_1", "h_2", "p_2", "fluid">>
    [] rel = "eps_compressor" -> <<"epsilon", "h_1", "p_1", "h_2", "p_2", "fluid">>
    [] rel = "eps_expander" -> <<"epsilon", "h_1", "p_1", "h_2", "p_2", "fluid">>
    [] rel = "turbo" -> <<"P", "m", "h_1", "h_2">>
    [] rel = "he" -> <<"m_hot", "h_1", "h_2", "m_cold", "h_3", "h_4">>
    [] rel = "ihx" -> <<"h_1", "h_2", "h_3", "h_4">>
    [] rel = "valve" -> <<"h_1", "h_2">>
    [] rel = "temperature" -> <<"t", "h", "p", "fluid">>
    [] rel = "x_saturation" -> <<"x", "h", "p", "fluid">>
    [] rel = "eps_real_he" -> <<"epsilon", "h_hot_in", "p_hot_in", "h_hot_out", "p_hot_out", "m_hot", "fluid_hot",
                                "h_cold_in", "p_cold_in", "h_cold_out", "p_cold_out", "m_cold", "fluid_cold">>
    [] rel = "ideal_he_entropy" -> <<"h_hot_in", "p_hot_in", "h_hot_out", "p_hot_out", "m_hot", "fluid_hot",
                                     "h_cold_in", "p_cold_in", "h_cold_out", "p_cold_out", "m_cold", "fluid_cold">>
    [] rel = "eps_real_ihx" -> <<"epsilon", "h_hot_in", "p_hot_in", "h_hot_out", "p_hot_out", "fluid_hot",
                                 "h_cold_in", "p_cold_in", "h_cold_out", "p_cold_out", "fluid_cold">>
    [] rel = "ideal_ihx_entropy" -> <<"h_hot_in", "p_hot_in", "h_hot_out", "p_hot_out", "fluid_hot",
                                      "h_cold_in", "p_cold_in", "h_cold_out", "p_cold_out", "fluid_cold">>
    [] rel = "ideal_valve_entropy" -> <<"h_1", "p_1", "h_2", "p_2", "fluid">>
    [] rel = "same_temperature" -> <<"h_copy", "p_copy", "fluid_copy", "h_paste", "p_paste", "fluid_paste">>
    [] rel = "ttd_temperature" -> <<"ttd", "h_copy", "p_copy", "fluid_copy", "h_paste", "p_paste", "fluid_paste">>
    [] OTHER -> <<>>

\* ---- the equation system, translated statement by statement ----

\* t11_calc_comp with the two adex branches exchanged: the measured epsilon
\* for the ideal compressor, the limit 1 for the real one
t11_calc_comp_exchanged ==
  IF (adex /\ ~config["comp"])
    THEN Call("eps_compressor", "func", <<Eps("comp"), V(0), V(10), V(1), V(2), K("wf")>>)
    ELSE IF (adex /\ config["comp"])
      THEN Call("eps_compressor", "func", <<K("1"), V(0), V(10), V(1), V(2), K("wf")>>)
      ELSE Call("eta_s_compressor", "func", <<K("eta_s"), V(0), V(10), V(1), V(2), K("wf")>>)

\* t13_calc_ihx_j chosen by the component flag alone, without the adex test
t13_calc_ihx_j_unguarded ==
  IF ~config["ihx"]
    THEN Call("ideal_ihx_entropy", "deriv", <<V(3), K("target_p12"), V(8), V(11), K("wf"), V(9), V(15), V(0), V(10), K("wf")>>)
    ELSE Call("ihx", "deriv", <<V(3), V(8), V(9), V(0)>>)

\* the start vector with h12 and h13 in each other's position
hp_layout_exchanged ==
  << "h16", "h11", "p11", "h13", "m11", "power_comp", "h21", "h22", "h12", "h15", "p16", "p13", "h14", "p14", "p22", "p15", "h18", "h19", "h28", "h29", "p18", "p19", "p28", "p29" >>

\* t11_calc_comp: slot 0 of the hp system, variant chosen by config and adex
t11_calc_comp ==
  IF (adex /\ ~config["comp"])
    THEN Call("eps_compressor", "func", <<K("1"), V(0), V(10), V(1), V(2), K("wf")>>)
    ELSE IF (adex /\ config["comp"])
      THEN Call("eps_compressor", "func", <<Eps("comp"), V(0), V(10), V(1), V(2), K("wf")>>)
      ELSE Call("eta_s_compressor", "func", <<K("eta_s"), V(0), V(10), V(1), V(2), K("wf")>>)

\* t11_calc_comp_j: slot 0 of the hp system, variant chosen by config and adex
t11_calc_comp_j ==
  IF (adex /\ ~config["comp"])
    THEN Call("eps_compressor", "deriv", <<K("1"), V(0), V(10), V(1), V(2), K("wf")>>)
    ELSE IF (adex /\ config["comp"])
      THEN Call("eps_compressor", "deriv", <<Eps("comp"), V(0), V(10), V(1), V(2), K("wf")>>)
      ELSE Call("eta_s_compressor", "deriv", <<K("eta_s"), V(0), V(10), V(1), V(2), K("wf")>>)

\* t16_set: slot 1 of the hp system, variant chosen by config and adex
t16_set ==
  IF (adex /\ ~config["ihx"])
    THEN Call("same_temperature", "func", <<V(3), K("target_p12"), K("wf"), V(0), V(10), K("wf")>>)
    ELSE IF (adex /\ config["ihx"])
      THEN Call("eps_real_ihx", "func", <<Eps("ihx"), V(3), K("target_p12"), V(8), V(11), K("wf"), V(9), V(15), V(0), V(10), K("wf")>>)
      ELSE Call("temperature", "func", <<K("t16"), V(0), V(10), K("wf")>>)

\* t16_set_j: slot 1 of the hp system, variant chosen by config and adex
t16_set_j ==
  IF (adex /\ ~config["ihx"])
    THEN Call("same_temperature", "deriv", <<V(3), K("target_p12"), K("wf"), V(0), V(10), K("wf")>>)
    ELSE IF (adex /\ config["ihx"])
      THEN Call("eps_real_ihx", "deriv", <<Eps("ihx"), V(3), K("target_p12"), V(8), V(11), K("wf"), V(9), V(15), V(0), V(10), K("wf")>>)
      ELSE Call("temperature", "deriv", <<K("t16"), V(0), V(10), K("wf")>>)

\* t12_set: slot 2 of the hp system, variant chosen by config and adex
t12_set ==
  IF (adex /\ config["cond"])
    THEN Call("eps_real_he", "func", <<Eps("cond"), V(1), V(2), V(3), K("target_p12"), V(4), K("wf"), V(6), K("p21"), V(7), V(14), K("m21"), K("fluid_tes")>>)
    ELSE Call("temperature", "func", <<K("t12"), V(3), K("target_p12"), K("wf")>>)

\* t12_set_j: slot 2 of the hp system, variant chosen by config and adex
t12_set_j ==
  IF (adex /\ config["cond"])
    THEN Call("eps_real_he", "deriv", <<Eps("cond"), V(1), V(2), V(3), K("target_p12"), V(4), K("wf"), V(6), K("p21"), V(7), V(14), K("m21"), K("fluid_tes")>>)
    ELSE Call("temperature", "deriv", <<K("t12"), V(3), K("target_p12"), K("wf")>>)

\* m11_calc_cond: slot 5 of the hp system, variant chosen by config and adex
m11_calc_cond ==
  IF (adex /\ ~config["cond"])
    THEN Call("ideal_he_entropy", "func", <<V(1), V(2), V(3), K("target_p12"), V(4), K("wf"), V(6), K("p21"), V(7), V(14), K("m21"), K("fluid_tes")>>)
    ELSE Call("he", "func", <<V(4), V(1), V(3), K("m21"), V(6), V(7)>>)

\* m11_calc_cond_j: slot 5 of the hp system, variant chosen by config and adex
m11_calc_cond_j ==
  IF (adex /\ ~config["cond"])
    THEN Call("ideal_he_entropy", "deriv", <<V(1), V(2), V(3), K("target_p12"), V(4), K("wf"), V(6), K("p21"), V(7), V(14), K("m21"), K("fluid_tes")>>)
    ELSE Call("he", "deriv", <<V(4), V(1), V(3), K("m21"), V(6), V(7)>>)

\* t13_calc_ihx: slot 8 of the hp system, variant chosen by config and adex
t13_calc_ihx ==
  IF (adex /\ ~config["ihx"])
    THEN Call("ideal_ihx_entropy", "func", <<V(3), K("target_p12"), V(8), V(11), K("wf"), V(9), V(15), V(0), V(10), K("wf")>>)
    ELSE Call("ihx", "func", <<V(3), V(8), V(9), V(0)>>)

\* t13_calc_ihx_j: slot 8 of the hp system, variant chosen by config and adex
t13_calc_ihx_j ==
  IF (adex /\ ~config["ihx"])
    THEN Call("ideal_ihx_entropy", "deriv", <<V(3), K("target_p12"), V(8), V(11), K("wf"), V(9), V(15), V(0), V(10), K("wf")>>)
    ELSE Call("ihx", "deriv", <<V(3), V(8), V(9), V(0)>>)

\* t14_calc_valve: slot 11 of the hp system, variant chosen by config and adex
t14_calc_valve ==
  IF (adex /\ ~config["val"])
    THEN Call("ideal_valve_entropy", "func", <<V(8), V(11), V(12), V(13), K("wf")>>)
    ELSE Call("valve", "func", <<V(8), V(12)>>)

\* t14_calc_valve_j: slot 11 of the hp system, variant chosen by config and adex
t14_calc_valve_j ==
  IF (adex /\ ~config["val"])
    THEN Call("ideal_valve_entropy", "deriv", <<V(8), V(11), V(12), V(13), K("wf")>>)
    ELSE Call("valve", "deriv", <<V(8), V(12)>>)

\* the residual array of the hp Newton loop, in slot order
hp_residual ==
  << t11_calc_comp,
     t16_set,
     t12_set,
     Call("pr", "func", <<K("pr_cond_hot"), V(2), K("target_p12")>>),
     Call("turbo", "func", <<V(5), V(4), V(0), V(1)>>),
     m11_calc_cond,
     Call("temperature", "func", <<K("t21"), V(6), K("p21"), K("fluid_tes")>>),
     Call("temperature", "func", <<K("t22"), V(7), V(14), K("fluid_tes")>>),
     t13_calc_ihx,
     Call("pr", "func", <<K("pr_ihx_cold"), V(15), V(10)>>),
     Call("pr", "func", <<K("pr_ihx_hot"), K("target_p12"), V(11)>>),
     t14_calc_valve,
     Call("x_saturation", "func", <<K("1"), V(9), V(15), K("wf")>>),
     Call("temperature", "func", <<K("t14"), V(12), V(13), K("wf")>>),
     Call("pr", "func", <<K("pr_cond_cold"), K("p21"), V(14)>>),
     Call("pr", "func", <<K("pr_eva_cold"), V(13), V(15)>>),
     Call("x_saturation", "func", <<K("1"), V(16), V(20), K("wf")>>),
     Call("he", "func", <<V(4), V(1), V(16), K("m21"), V(19), V(7)>>),
     Call("x_saturation", "func", <<K("0"), V(17), V(21), K("wf")>>),
     Call("he", "func", <<V(4), V(17), V(3), K("m21"), V(6), V(18)>>),
     Call("pr", "func", <<K("pr_cond_part_hot"), V(2), V(20)>>),
     Call("pr", "func", <<K("pr_cond_part_hot"), V(20), V(21)>>),
     Call("pr", "func", <<K("pr_cond_part_cold"), K("p21"), V(22)>>),
     Call("pr", "func", <<K("pr_cond_part_cold"), V(22), V(23)>>) >>

\* the derivatives array of the hp Newton loop, in slot order
hp_derivatives ==
  << t11_calc_comp_j,
     t16_set_j,
     t12_set_j,
     Call("pr", "deriv", <<K("pr_cond_hot"), V(2), K("target_p12")>>),
     Call("turbo", "deriv", <<V(5), V(4), V(0), V(1)>>),
     m11_calc_cond_j,
     Call("temperature", "deriv", <<K("t21"), V(6), K("p21"), K("fluid_tes")>>),
     Call("temperature", "deriv", <<K("t22"), V(7), V(14), K("fluid_tes")>>),
     t13_calc_ihx_j,
     Call("pr", "deriv", <<K("pr_ihx_cold"), V(15), V(10)>>),
     Call("pr", "deriv", <<K("pr_ihx_hot"), K("target_p12"), V(11)>>),
     t14_calc_valve_j,
     Call("x_saturation", "deriv", <<K("1"), V(9), V(15), K("wf")>>),
     Call("temperature", "deriv", <<K("t14"), V(12), V(13), K("wf")>>),
     Call("pr", "deriv", <<K("pr_cond_cold"), K("p21"), V(14)>>),
     Call("pr", "deriv", <<K("pr_eva_cold"), V(13), V(15)>>),
     Call("x_saturation", "deriv", <<K("1"), V(16), V(20), K("wf")>>),
     Call("he", "deriv", <<V(4), V(1), V(16), K("m21"), V(19), V(7)>>),
     Call("x_saturation", "deriv", <<K("0"), V(17), V(21), K("wf")>>),
     Call("he", "deriv", <<V(4), V(17), V(3), K("m21"), V(6), V(18)>>),
     Call("pr", "deriv", <<K("pr_cond_part_hot"), V(2), V(20)>>),
     Call("pr", "deriv", <<K("pr_cond_part_hot"), V(20), V(21)>>),
     Call("pr", "deriv", <<K("pr_cond_part_cold"), K("p21"), V(22)>>),
     Call("pr", "deriv", <<K("pr_cond_part_cold"), V(22), V(23)>>) >>

\* the assignments jacobian[i, j] = <slot>_j[key] of the hp loop, in program order
hp_jacobian_writes ==
  <<W(0, 0, 0, "h_1"),
    W(0, 10, 0, "p_1"),
    W(0, 1, 0, "h_2"),
    W(0, 2, 0, "p_2")>>
  \o (IF (adex /\ ~config["ihx"])
    THEN <<W(1, 3, 1, "h_copy"),
        W(1, 0, 1, "h_paste"),
        W(1, 10, 1, "p_paste")>>
    ELSE (IF (adex /\ config["ihx"])
        THEN <<W(1, 3, 1, "h_hot_in"),
            W(1, 8, 1, "h_hot_out"),
            W(1, 11, 1, "p_hot_out"),
            W(1, 9, 1, "h_cold_in"),
            W(1, 15, 1, "p_cold_in"),
            W(1, 0, 1, "h_cold_out"),
            W(1, 10, 1, "p_cold_out")>>
        ELSE <<W(1, 0, 1, "h"),
            W(1, 10, 1, "p")>>))
  \o (IF (adex /\ config["cond"])
    THEN <<W(2, 1, 2, "h_hot_in"),
        W(2, 2, 2, "p_hot_in"),
        W(2, 3, 2, "h_hot_out"),
        W(2, 4, 2, "m_hot"),
        W(2, 6, 2, "h_cold_in"),
        W(2, 7, 2, "h_cold_out"),
        W(2, 14, 2, "p_cold_out")>>
    ELSE <<W(2, 3, 2, "h")>>)
  \o <<W(3, 2, 3, "p_1"),
    W(4, 5, 4, "P"),
    W(4, 4, 4, "m"),
    W(4, 0, 4, "h_1"),
    W(4, 1, 4, "h_2")>>
  \o (IF (adex /\ ~config["cond"])
    THEN <<W(5, 1, 5, "h_hot_in"),
        W(5, 2, 5, "p_hot_in"),
        W(5, 3, 5, "h_hot_out"),
        W(5, 4, 5, "m_hot"),
        W(5, 6, 5, "h_cold_in"),
        W(5, 7, 5, "h_cold_out"),
        W(5, 14, 5, "p_cold_out")>>
    ELSE <<W(5, 1, 5, "h_1"),
        W(5, 3, 5, "h_2"),
        W(5, 4, 5, "m_hot"),
        W(5, 6, 5, "h_3"),
        W(5, 7, 5, "h_4")>>)
  \o <<W(6, 6, 6, "h"),
    W(7, 7, 7, "h"),
    W(7, 14, 7, "p")>>
  \o (IF (adex /\ ~config["ihx"])
    THEN <<W(8, 3, 8, "h_hot_in"),
        W(8, 8, 8, "h_hot_out"),
        W(8, 11, 8, "p_hot_out"),
        W(8, 9, 8, "h_cold_in"),
        W(8, 15, 8, "p_cold_in"),
        W(8, 0, 8, "h_cold_out"),
        W(8, 10, 8, "p_cold_out")>>
    ELSE <<W(8, 3, 8, "h_1"),
        W(8, 8, 8, "h_2"),
        W(8, 9, 8, "h_3"),
        W(8, 0, 8, "h_4")>>)
  \o <<W(9, 10, 9, "p_2"),
    W(9, 15, 9, "p_1"),
    W(10, 11, 10, "p_2")>>
  \o (IF (adex /\ ~config["val"])
    THEN <<W(11, 8, 11, "h_1"),
        W(11, 11, 11, "p_1"),
        W(11, 12, 11, "h_2"),
        W(11, 13, 11, "p_2")>>
    ELSE <<W(11, 8, 11, "h_1"),
        W(11, 12, 11, "h_2")>>)
  \o <<W(12, 9, 12, "h"),
    W(12, 15, 12, "p"),
    W(13, 12, 13, "h"),
    W(13, 13, 13, "p"),
    W(14, 14, 14, "p_2"),
    W(15, 13, 15, "p_1"),
    W(15, 15, 15, "p_2"),
    W(16, 16, 16, "h"),
    W(16, 20, 16, "p"),
    W(17, 4, 17, "m_hot"),
    W(17, 1, 17, "h_1"),
    W(17, 16, 17, "h_2"),
    W(17, 19, 17, "h_3"),
    W(17, 7, 17, "h_4"),
    W(18, 17, 18, "h"),
    W(18, 21, 18, "p"),
    W(19, 4, 19, "m_hot"),
    W(19, 17, 19, "h_1"),
    W(19, 6, 19, "h_2"),
    W(19, 3, 19, "h_3"),
    W(19, 18, 19, "h_4"),
    W(20, 2, 20, "p_1"),
    W(20, 20, 20, "p_2"),
    W(21, 20, 21, "p_1"),
    W(21, 21, 21, "p_2"),
    W(22, 22, 22, "p_2"),
    W(23, 22, 23, "p_1"),
    W(23, 23, 23, "p_2")>>

\* the quantity each position of the unknown vector starts from
hp_layout ==
  << "h16", "h11", "p11", "h12", "m11", "power_comp", "h21", "h22", "h13", "h15", "p16", "p13", "h14", "p14", "p22", "p15", "h18", "h19", "h28", "h29", "p18", "p19", "p28", "p29" >>

\* post-processing of the hp solver: extract
hp_extract ==
  << X("p11", V(2)),
     X("p12", K("target_p12")),
     X("p13", V(11)),
     X("p14", V(13)),
     X("p15", V(15)),
     X("p16", V(10)),
     X("p22", V(14)),
     X("p18", V(20)),
     X("p19", V(21)),
     X("p28", V(22)),
     X("p29", V(23)),
     X("h11", V(1)),
     X("h12", V(3)),
     X("h13", V(8)),
     X("h14", V(12)),
     X("h15", V(9)),
     X("h16", V(0)),
     X("h21", V(6)),
     X("h22", V(7)),
     X("h18", V(16)),
     X("h19", V(17)),
     X("h28", V(18)),
     X("h29", V(19)),
     X("m11", V(4)) >>

\* post-processing of the hp solver: props
hp_props ==
  << P("t11", "T", "h11", "p11", "wf"),
     P("t12", "T", "h12", "p12", "wf"),
     P("t13", "T", "h13", "p13", "wf"),
     P("t14", "T", "h14", "p14", "wf"),
     P("t15", "T", "h15", "p15", "wf"),
     P("t16", "T", "h16", "p16", "wf"),
     P("t21", "T", "h21", "p21", "fluid_tes"),
     P("t22", "T", "h22", "p22", "fluid_tes"),
     P("t18", "T", "h18", "p18", "wf"),
     P("t19", "T", "h19", "p19", "wf"),
     P("t28", "T", "h28", "p28", "fluid_tes"),
     P("t29", "T", "h29", "p29", "fluid_tes"),
     P("s11", "S", "h11", "p11", "wf"),
     P("s12", "S", "h12", "p12", "wf"),
     P("s13", "S", "h13", "p13", "wf"),
     P("s14", "S", "h14", "p14", "wf"),
     P("s15", "S", "h15", "p15", "wf"),
     P("s16", "S", "h16", "p16", "wf"),
     P("s21", "S", "h21", "p21", "fluid_tes"),
     P("s22", "S", "h22", "p22", "fluid_tes"),
     P("s18", "S", "h18", "p18", "wf"),
     P("s19", "S", "h19", "p19", "wf"),
     P("s28", "S", "h28", "p28", "fluid_tes"),
     P("s29", "S", "h29", "p29", "fluid_tes") >>

\* post-processing of the hp solver: stream_rows
hp_stream_rows ==
  << Row(11, "m11", "t11", "h11", "p11", "s11", "wf"),
     Row(12, "m11", "t12", "h12", "p12", "s12", "wf"),
     Row(13, "m11", "t13", "h13", "p13", "s13", "wf"),
     Row(14, "m11", "t14", "h14", "p14", "s14", "wf"),
     Row(15, "m11", "t15", "h15", "p15", "s15", "wf"),
     Row(16, "m11", "t16", "h16", "p16", "s16", "wf"),
     Row(21, "m21", "t21", "h21", "p21", "s21", "fluid_tes"),
     Row(22, "m21", "t22", "h22", "p21", "s22", "fluid_tes"),
     Row(18, "m11", "t18", "h18", "p18", "s18", "wf"),
     Row(19, "m11", "t19", "h19", "p19", "s19", "wf"),
     Row(28, "m21", "t28", "h28", "p28", "s28", "fluid_tes"),
     Row(29, "m21", "t29", "h29", "p29", "s29", "fluid_tes") >>

\* t32_calc_pump: slot 2 of the orc system, variant chosen by config and adex
t32_calc_pump ==
  IF (adex /\ ~config["pump"])
    THEN Call("eps_compressor", "func", <<K("1"), V(0), V(1), V(2), V(5), K("wf")>>)
    ELSE IF (adex /\ config["pump"])
      THEN Call("eps_compressor", "func", <<Eps("pump"), V(0), V(1), V(2), V(5), K("wf")>>)
      ELSE Call("eta_s_compressor", "func", <<K("eta_s_pump"), V(0), V(1), V(2), V(5), K("wf")>>)

\* t32_calc_pump_j: slot 2 of the orc system, variant chosen by config and adex
t32_calc_pump_j ==
  IF (adex /\ ~config["pump"])
    THEN Call("eps_compressor", "deriv", <<K("1"), V(0), V(1), V(2), V(5), K("wf")>>)
    ELSE IF (adex /\ config["pump"])
      THEN Call("eps_compressor", "deriv", <<Eps("pump"), V(0), V(1), V(2), V(5), K("wf")>>)
      ELSE Call("eta_s_compressor", "deriv", <<K("eta_s_pump"), V(0), V(1), V(2), V(5), K("wf")>>)

\* t36_set: slot 3 of the orc system, variant chosen by config and adex
t36_set ==
  IF (adex /\ ~config["ihx"])
    THEN IF config["cond"]
      THEN Call("ttd_temperature", "func", <<K("1"), V(2), V(5), K("wf"), V(3), V(4), K("wf")>>)
      ELSE Call("same_temperature", "func", <<V(2), V(5), K("wf"), V(3), V(4), K("wf")>>)
    ELSE Call("ttd_temperature", "func", <<K("ttd_l_ihx"), V(2), V(5), K("wf"), V(3), V(4), K("wf")>>)

\* t36_set_j: slot 3 of the orc system, variant chosen by config and adex
t36_set_j ==
  IF (adex /\ ~config["ihx"])
    THEN IF config["cond"]
      THEN Call("ttd_temperature", "deriv", <<K("1"), V(2), V(5), K("wf"), V(3), V(4), K("wf")>>)
      ELSE Call("same_temperature", "deriv", <<V(2), V(5), K("wf"), V(3), V(4), K("wf")>>)
    ELSE Call("ttd_temperature", "deriv", <<K("ttd_l_ihx"), V(2), V(5), K("wf"), V(3), V(4), K("wf")>>)

\* t35_calc_exp: slot 9 of the orc system, variant chosen by config and adex
t35_calc_exp ==
  IF (adex /\ ~config["exp"])
    THEN Call("eps_expander", "func", <<K("1"), V(7), V(6), V(9), V(8), K("wf")>>)
    ELSE IF (adex /\ config["exp"])
      THEN Call("eps_expander", "func", <<Eps("exp"), V(7), V(6), V(9), V(8), K("wf")>>)
      ELSE Call("eta_s_expander", "func", <<K("eta_s_exp"), V(7), V(6), V(9), V(8), K("wf")>>)

\* t35_calc_exp_j: slot 9 of the orc system, variant chosen by config and adex
t35_calc_exp_j ==
  IF (adex /\ ~config["exp"])
    THEN Call("eps_expander", "deriv", <<K("1"), V(7), V(6), V(9), V(8), K("wf")>>)
    ELSE IF (adex /\ config["exp"])
      THEN Call("eps_expander", "deriv", <<Eps("exp"), V(7), V(6), V(9), V(8), K("wf")>>)
      ELSE Call("eta_s_expander", "deriv", <<K("eta_s_exp"), V(7), V(6), V(9), V(8), K("wf")>>)

\* t33_calc: slot 10 of the orc system, variant chosen by config and adex
t33_calc ==
  IF (adex /\ ~config["ihx"])
    THEN Call("ideal_ihx_entropy", "func", <<V(9), V(8), V(3), V(4), K("wf"), V(2), V(5), V(10), K("target_p33"), K("wf")>>)
    ELSE Call("ihx", "func", <<V(9), V(3), V(2), V(10)>>)

\* t33_calc_j: slot 10 of the orc system, variant chosen by config and adex
t33_calc_j ==
  IF (adex /\ ~config["ihx"])
    THEN Call("ideal_ihx_entropy", "deriv", <<V(9), V(8), V(3), V(4), K("wf"), V(2), V(5), V(10), K("target_p33"), K("wf")>>)
    ELSE Call("ihx", "deriv", <<V(9), V(3), V(2), V(10)>>)

\* m31_calc_eva: slot 14 of the orc system, variant chosen by config and adex
m31_calc_eva ==
  IF (adex /\ ~config["eva"])
    THEN Call("ideal_he_entropy", "func", <<V(11), K("p41"), V(12), V(13), K("m41"), K("fluid_tes"), V(10), K("target_p33"), V(7), V(6), V(14), K("wf")>>)
    ELSE Call("he", "func", <<K("m41"), V(11), V(12), V(14), V(10), V(7)>>)

\* m31_calc_eva_j: slot 14 of the orc system, variant chosen by config and adex
m31_calc_eva_j ==
  IF (adex /\ ~config["eva"])
    THEN Call("ideal_he_entropy", "deriv", <<V(11), K("p41"), V(12), V(13), K("m41"), K("fluid_tes"), V(10), K("target_p33"), V(7), V(6), V(14), K("wf")>>)
    ELSE Call("he", "deriv", <<K("m41"), V(11), V(12), V(14), V(10), V(7)>>)

\* the residual array of the orc Newton loop, in slot order
orc_residual ==
  << Call("temperature", "func", <<K("t31"), V(0), V(1), K("wf")>>),
     Call("x_saturation", "func", <<K("0"), V(0), V(1), K("wf")>>),
     t32_calc_pump,
     t36_set,
     Call("pr", "func", <<K("pr_cond_hot"), V(4), V(1)>>),
     Call("pr", "func", <<K("pr_ihx_cold"), V(5), K("target_p33")>>),
     Call("pr", "func", <<K("pr_eva_cold"), K("target_p33"), V(6)>>),
     Call("temperature", "func", <<K("t34"), V(7), V(6), K("wf")>>),
     Call("pr", "func", <<K("pr_ihx_hot"), V(8), V(4)>>),
     t35_calc_exp,
     t33_calc,
     Call("temperature", "func", <<K("t41"), V(11), K("p41"), K("fluid_tes")>>),
     Call("temperature", "func", <<K("t42"), V(12), V(13), K("fluid_tes")>>),
     Call("pr", "func", <<K("pr_eva_hot"), K("p41"), V(13)>>),
     m31_calc_eva,
     Call("x_saturation", "func", <<K("0"), V(15), V(19), K("wf")>>),
     Call("he", "func", <<K("m41"), V(18), V(12), V(14), V(10), V(15)>>),
     Call("x_saturation", "func", <<K("1"), V(16), V(20), K("wf")>>),
     Call("he", "func", <<K("m41"), V(11), V(17), V(14), V(16), V(7)>>),
     Call("pr", "func", <<K("pr_eva_part_cold"), K("target_p33"), V(19)>>),
     Call("pr", "func", <<K("pr_eva_part_cold"), V(19), V(20)>>),
     Call("pr", "func", <<K("pr_eva_part_hot"), K("p41"), V(21)>>),
     Call("pr", "func", <<K("pr_eva_part_hot"), V(21), V(22)>>) >>

\* the derivatives array of the orc Newton loop, in slot order
orc_derivatives ==
  << Call("temperature", "deriv", <<K("t31"), V(0), V(1), K("wf")>>),
     Call("x_saturation", "deriv", <<K("0"), V(0), V(1), K("wf")>>),
     t32_calc_pump_j,
     t36_set_j,
     Call("pr", "deriv", <<K("pr_cond_hot"), V(4), V(1)>>),
     Call("pr", "deriv", <<K("pr_ihx_cold"), V(5), K("target_p33")>>),
     Call("pr", "deriv", <<K("pr_eva_cold"), K("target_p33"), V(6)>>),
     Call("temperature", "deriv", <<K("t34"), V(7), V(6), K("wf")>>),
     Call("pr", "deriv", <<K("pr_ihx_hot"), V(8), V(4)>>),
     t35_calc_exp_j,
     t33_calc_j,
     Call("temperature", "deriv", <<K("t41"), V(11), K("p41"), K("fluid_tes")>>),
     Call("temperature", "deriv", <<K("t42"), V(12), V(13), K("fluid_tes")>>),
     Call("pr", "deriv", <<K("pr_eva_hot"), K("p41"), V(13)>>),
     m31_calc_eva_j,
     Call("x_saturation", "deriv", <<K("0"), V(15), V(19), K("wf")>>),
     Call("he", "deriv", <<K("m41"), V(18), V(12), V(14), V(10), V(15)>>),
     Call("x_saturation", "deriv", <<K("1"), V(16), V(20), K("wf")>>),
     Call("he", "deriv", <<K("m41"), V(11), V(17), V(14), V(16), V(7)>>),
     Call("pr", "deriv", <<K("pr_eva_part_cold"), K("target_p33"), V(19)>>),
     Call("pr", "deriv", <<K("pr_eva_part_cold"), V(19), V(20)>>),
     Call("pr", "deriv", <<K("pr_eva_part_hot"), K("p41"), V(21)>>),
     Call("pr", "deriv", <<K("pr_eva_part_hot"), V(21), V(22)>>) >>

\* the assignments jacobian[i, j] = <slot>_j[key] of the orc loop, in program order
orc_jacobian_writes ==
  <<W(0, 0, 0, "h"),
    W(0, 1, 0, "p"),
    W(1, 0, 1, "h"),
    W(1, 1, 1, "p"),
    W(2, 0, 2, "h_1"),
    W(2, 1, 2, "p_1"),
    W(2, 2, 2, "h_2"),
    W(2, 5, 2, "p_2")>>
  \o (IF (adex /\ ~config["ihx"])
    THEN <<W(3, 2, 3, "h_copy"),
        W(3, 5, 3, "p_copy"),
        W(3, 3, 3, "h_paste"),
        W(3, 4, 3, "p_paste")>>
    ELSE <<W(3, 2, 3, "h_copy"),
        W(3, 5, 3, "p_copy"),
        W(3, 3, 3, "h_paste"),
        W(3, 4, 3, "p_paste")>>)
  \o <<W(4, 4, 4, "p_1"),
    W(4, 1, 4, "p_2"),
    W(5, 5, 5, "p_1"),
    W(6, 6, 6, "p_2"),
    W(7, 7, 7, "h"),
    W(7, 6, 7, "p"),
    W(8, 8, 8, "p_1"),
    W(8, 4, 8, "p_2"),
    W(9, 7, 9, "h_1"),
    W(9, 6, 9, "p_1"),
    W(9, 9, 9, "h_2"),
    W(9, 8, 9, "p_2")>>
  \o (IF (adex /\ ~config["ihx"])
    THEN <<W(10, 9, 10, "h_hot_in"),
        W(10, 8, 10, "p_hot_in"),
        W(10, 3, 10, "h_hot_out"),
        W(10, 4, 10, "p_hot_out"),
        W(10, 2, 10, "h_cold_in"),
        W(10, 5, 10, "p_cold_in"),
        W(10, 10, 10, "h_cold_out")>>
    ELSE <<W(10, 9, 10, "h_1"),
        W(10, 3, 10, "h_2"),
        W(10, 2, 10, "h_3"),
        W(10, 10, 10, "h_4")>>)
  \o <<W(11, 11, 11, "h"),
    W(12, 12, 12, "h"),
    W(12, 13, 12, "p"),
    W(13, 13, 13, "p_2")>>
  \o (IF (adex /\ ~config["eva"])
    THEN <<W(14, 11, 14, "h_hot_in"),
        W(14, 12, 14, "h_hot_out"),
        W(14, 13, 14, "p_hot_out"),
        W(14, 10, 14, "h_cold_in"),
        W(14, 7, 14, "h_cold_out"),
        W(14, 6, 14, "p_cold_out"),
        W(14, 14, 14, "m_cold")>>
    ELSE <<W(14, 11, 14, "h_1"),
        W(14, 12, 14, "h_2"),
        W(14, 14, 14, "m_cold"),
        W(14, 10, 14, "h_3"),
        W(14, 7, 14, "h_4")>>)
  \o <<W(15, 15, 15, "h"),
    W(15, 19, 15, "p"),
    W(16, 18, 16, "h_1"),
    W(16, 12, 16, "h_2"),
    W(16, 14, 16, "m_cold"),
    W(16, 10, 16, "h_3"),
    W(16, 15, 16, "h_4"),
    W(17, 16, 17, "h"),
    W(17, 20, 17, "p"),
    W(18, 11, 18, "h_1"),
    W(18, 17, 18, "h_2"),
    W(18, 14, 18, "m_cold"),
    W(18, 16, 18, "h_3"),
    W(18, 7, 18, "h_4"),
    W(19, 19, 19, "p_2"),
    W(20, 19, 20, "p_1"),
    W(20, 20, 20, "p_2"),
    W(21, 21, 21, "p_2"),
    W(22, 21, 22, "p_1"),
    W(22, 22, 22, "p_2")>>

\* the quantity each position of the unknown vector starts from
orc_layout ==
  << "h31", "p31", "h32", "h36", "p36", "p32", "p34", "h34", "p35", "h35", "h33", "h41", "h42", "p42", "m31", "h38", "h39", "h48", "h49", "p38", "p39", "p48", "p49" >>

\* post-processing of the orc solver: extract
orc_extract ==
  << X("p31", V(1)),
     X("p32", V(5)),
     X("p33", K("target_p33")),
     X("p34", V(6)),
     X("p35", V(8)),
     X("p36", V(4)),
     X("p41", K("p41")),
     X("p42", V(13)),
     X("p38", V(19)),
     X("p39", V(20)),
     X("p48", V(21)),
     X("p49", V(22)),
     X("h31", V(0)),
     X("h32", V(2)),
     X("h33", V(10)),
     X("h34", V(7)),
     X("h35", V(9)),
     X("h36", V(3)),
     X("h41", V(11)),
     X("h42", V(12)),
     X("h38", V(15)),
     X("h39", V(16)),
     X("h48", V(17)),
     X("h49", V(18)),
     X("m31", V(14)) >>

\* post-processing of the orc solver: props
orc_props ==
  << P("t31", "T", "h31", "p31", "wf"),
     P("t32", "T", "h32", "p32", "wf"),
     P("t33", "T", "h33", "p33", "wf"),
     P("t34", "T", "h34", "p34", "wf"),
     P("t35", "T", "h35", "p35", "wf"),
     P("t36", "T", "h36", "p36", "wf"),
     P("t38", "T", "h38", "p38", "wf"),
     P("t39", "T", "h39", "p39", "wf"),
     P("t41", "T", "h41", "p41", "fluid_tes"),
     P("t42", "T", "h42", "p42", "fluid_tes"),
     P("t48", "T", "h48", "p48", "fluid_tes"),
     P("t49", "T", "h49", "p49", "fluid_tes"),
     P("s31", "S", "h31", "p31", "wf"),
     P("s32", "S", "h32", "p32", "wf"),
     P("s33", "S", "h33", "p33", "wf"),
     P("s34", "S", "h34", "p34", "wf"),
     P("s35", "S", "h35", "p35", "wf"),
     P("s36", "S", "h36", "p36", "wf"),
     P("s38", "S", "h38", "p38", "wf"),
     P("s39", "S", "h39", "p39", "wf"),
     P("s41", "S", "h41", "p41", "fluid_tes"),
     P("s42", "S", "h42", "p42", "fluid_tes"),
     P("s48", "S", "h48", "p48", "fluid_tes"),
     P("s49", "S", "h49", "p49", "fluid_tes") >>

\* post-processing of the orc solver: stream_rows
orc_stream_rows ==
  << Row(31, "m31", "t31", "h31", "p31", "s31", "wf"),
     Row(32, "m31", "t32", "h32", "p32", "s32", "wf"),
     Row(33, "m31", "t33", "h33", "p33", "s33", "wf"),
     Row(34, "m31", "t34", "h34", "p34", "s34", "wf"),
     Row(35, "m31", "t35", "h35", "p35", "s35", "wf"),
     Row(36, "m31", "t36", "h36", "p36", "s36", "wf"),
     Row(38, "m31", "t38", "h38", "p38", "s38", "wf"),
     Row(39, "m31", "t39", "h39", "p39", "s39", "wf"),
     Row(41, "m41", "t41", "h41", "p41", "s41", "fluid_tes"),
     Row(42, "m41", "t42", "h42", "p42", "s42", "fluid_tes"),
     Row(48, "m41", "t48", "h48", "p48", "s48", "fluid_tes"),
     Row(49, "m41", "t49", "h49", "p49", "s49", "fluid_tes") >>

\* ---- the parts of the state a specification does not exercise ----
SolverIdle ==
  /\ epsilon = "None"
  /\ parameters = <<>>
  /\ variables = <<>>
  /\ residual = [at |-> -1, val |-> <<>>, calls |-> <<>>]
  /\ derivs = <<>>
  /\ jacobian = [shape |-> <<0, 0>>, cells |-> <<>>]
  /\ iter_step = 0
  /\ solver_pc = "idle"
  /\ df_streams = <<>>
SearchIdle ==
  /\ p_opt_start = 0
  /\ min_t_diff_start = 0
  /\ target_min_td = 0
  /\ min_t_diff = 0
  /\ p_opt = 0
  /\ diff = 0
  /\ step = 0
  /\ search_pc = "idle"
  /\ solves = <<>>

DriverIdle ==
  /\ mode = "none"
  /\ unavoid = FALSE
  /\ nworkers = 0
  /\ driver_pc = "idle"
  /\ next_run = 0
  /\ cur_run = 0
  /\ started = {}
  /\ nstarted = 0
  /\ finished = {}
  /\ files = {}
  /\ df_ed_base = <<>>
  /\ df_ed = <<>>
  /\ chunks = <<>>

OutIdle ==
  /\ balance = <<>>
  /\ performance = <<>>
  /\ stdout = <<>>

LedgerIdle == ledger = <<>> /\ overtaken = FALSE

RunIdle ==
  /\ run_label = <<>>
  /\ run_save = FALSE
  /\ run_calc_epsilon = FALSE
  /\ run_pc = "idle"
  /\ df_opt = <<>>
  /\ failed = FALSE

CfgIdle ==
  /\ arg_seq = <<>>
  /\ cfg_label = <<>>
  /\ cfg_pc = "idle"

PostIdle ==
  /\ analysis_csv = <<>>
  /\ results_base = <<>>
  /\ results_unavoid = <<>>
  /\ final_results = <<>>
  /\ post_pc = "idle"

HxIdle ==
  /\ hx_dec = <<>>
  /\ hx_m = <<>>
  /\ hx_h = <<>>
  /\ hx_pc = "idle"

ModuleIdle == module_pc = "idle" /\ passes = {}

\* the target of the pinch difference raised by any real component
hp_target_any_real(cfg) == IF \E c \in DOMAIN cfg : cfg[c] THEN 5000 ELSE 0
\* the ORC adjustment with the sign of the heat-pump one
orc_adjustment_unsigned(target, mtd) == (target - mtd) * 50

\* ---- exact arithmetic on quantities the property oracle supplies ----
\* a sum of products is kept as a linear form: a function from the atoms
\* (the symbolic factors) to their integer coefficients, zero ones left out
Coef(f, a) == IF a \in DOMAIN f THEN f[a] ELSE 0
Atom(a) == [x \in {a} |-> 1]
LinScale(c, f) == [a \in {x \in DOMAIN f : c # 0} |-> c * f[a]]
LinAdd(f, g) ==
  [a \in {x \in (DOMAIN f) \cup (DOMAIN g) : Coef(f, x) + Coef(g, x) # 0} |-> Coef(f, a) + Coef(g, a)]
LinSub(f, g) == LinAdd(f, LinScale(-1, g))
IsZero(f) == DOMAIN f = {}

\* ---- the global energy balance at the end of hp_simultaneous / orc_simultaneous ----
\* c * df_streams.loc[m, 'm [kg/s]'] * df_streams.loc[h, 'h [kJ/kg]']
T(c, m, h) == [c |-> c, m |-> m, h |-> h]
\* the balance with the two enthalpies of the valve power exchanged
hp_energy_balance_exchanged ==
  <<[c |-> 1, q |-> <<T(1, 11, 11), T(-1, 11, 16)>>],
    [c |-> 1, q |-> <<T(1, 11, 15), T(-1, 11, 14)>>],
    [c |-> -1, q |-> <<T(1, 21, 22), T(-1, 21, 21)>>],
    [c |-> -1, q |-> <<T(1, 11, 11), T(-1, 11, 12), T(1, 21, 21), T(-1, 21, 22)>>],
    [c |-> -1, q |-> <<T(1, 11, 12), T(-1, 11, 13), T(1, 11, 15), T(-1, 11, 16)>>],
    [c |-> -1, q |-> <<T(1, 11, 14), T(-1, 11, 13)>>]>>
\* power_comp+heat_eva-heat_cond-power_cond-power_ihx-power_val of the
\* heat pump, each quantity a sum of products, in this order
hp_energy_balance ==
  <<[c |-> 1, q |-> <<T(1, 11, 11), T(-1, 11, 16)>>],
    [c |-> 1, q |-> <<T(1, 11, 15), T(-1, 11, 14)>>],
    [c |-> -1, q |-> <<T(1, 21, 22), T(-1, 21, 21)>>],
    [c |-> -1, q |-> <<T(1, 11, 11), T(-1, 11, 12), T(1, 21, 21), T(-1, 21, 22)>>],
    [c |-> -1, q |-> <<T(1, 11, 12), T(-1, 11, 13), T(1, 11, 15), T(-1, 11, 16)>>],
    [c |-> -1, q |-> <<T(1, 11, 13), T(-1, 11, 14)>>]>>
\* heat_eva+power_pump-power_exp-heat_cond-power_ihx-power_eva of the ORC
orc_energy_balance ==
  <<[c |-> 1, q |-> <<T(1, 41, 41), T(-1, 41, 42)>>],
    [c |-> 1, q |-> <<T(1, 31, 32), T(-1, 31, 31)>>],
    [c |-> -1, q |-> <<T(1, 31, 34), T(-1, 31, 35)>>],
    [c |-> -1, q |-> <<T(1, 31, 36), T(-1, 31, 31)>>],
    [c |-> -1, q |-> <<T(1, 31, 35), T(-1, 31, 36), T(1, 31, 32), T(-1, 31, 33)>>],
    [c |-> -1, q |-> <<T(1, 41, 41), T(-1, 41, 42), T(1, 31, 33), T(-1, 31, 34)>>]>>

\* df.loc[node]
Loc(df, node) == df[CHOOSE k \in 1..Len(df) : df[k].node = node]
\* the value of a sum of products on a stream table: the atoms are the
\* pairs (mass flow, enthalpy) the table holds at the two places
RECURSIVE Quantity(_, _)
Quantity(terms, df) ==
  IF terms = <<>> THEN <<>>
  ELSE LinAdd(LinScale(Head(terms).c, Atom(<<Loc(df, Head(terms).m).m, Loc(df, Head(terms).h).h>>)),
              Quantity(Tail(terms), df))
RECURSIVE EnergyBalance(_, _)
EnergyBalance(parts, df) ==
  IF parts = <<>> THEN <<>>
  ELSE LinAdd(LinScale(Head(parts).c, Quantity(Head(parts).q, df)), EnergyBalance(Tail(parts), df))
\* print('Energy balances are not fulfilled! :(') when the sum is off zero
EnergyMessage(b) == IF IsZero(b) THEN <<>> ELSE <<"Energy balances are not fulfilled! :(">>

\* ---- cop / efficiency of a solve and the total power of the exergy analysis ----
\* a signed sum of the quantities of a cycle, picked by their place in the
\* list of the energy balance: Q(c, i) is c times the i-th quantity
Q(c, i) == [c |-> c, i |-> i]
SumOf(quantities, picks, df) ==
  EnergyBalance([j \in 1..Len(picks) |-> [c |-> picks[j].c, q |-> quantities[picks[j].i].q]], df)

\* cop = heat_cond/(power_comp-power_ihx-power_val-power_cond)
hp_cop(df) ==
  [num |-> SumOf(hp_energy_balance, <<Q(1, 3)>>, df),
   den |-> SumOf(hp_energy_balance, <<Q(1, 1), Q(-1, 5), Q(-1, 6), Q(-1, 4)>>, df)]
\* efficiency = (power_exp+power_eva+power_eva-power_pump)/heat_eva
orc_efficiency(df) ==
  [num |-> SumOf(orc_energy_balance, <<Q(1, 3), Q(1, 6), Q(1, 6), Q(-1, 2)>>, df),
   den |-> SumOf(orc_energy_balance, <<Q(1, 1)>>, df)]

\* df_comps.loc['tot', 'P [kW]'] of exergy_analysis_hp / exergy_analysis_orc,
\* which compute the quantities from the table with the same expressions:
\* power_comp-power_cond-power_val-power_ihx
hp_total_power(df) == SumOf(hp_energy_balance, <<Q(1, 1), Q(-1, 4), Q(-1, 6), Q(-1, 5)>>, df)
\* - power_pump + power_eva + power_exp + power_ihx
orc_total_power(df) == SumOf(orc_energy_balance, <<Q(-1, 2), Q(1, 6), Q(1, 3), Q(1, 5)>>, df)

\* ---- pressure ratios and approach temperatures set before the loop ----
\* a value read from the configuration record of the cycle (hp_config /
\* orc_config, the JSON file of the base or of the unavoidable case)
FromConfig(path) == [from |-> "config", path |-> path, val |-> ""]
\* a value written in the code
Literal(val) == [from |-> "code", path |-> <<>>, val |-> val]

\* hp_simultaneous: PRESSURE DROPS and HEAT PUMP
hp_parameters(cfg) ==
  [pr_cond_cold |-> IF cfg["cond"] THEN FromConfig(<<"pressure_drops", "cond", "pr_cond_cold">>) ELSE Literal("1"),
   pr_cond_hot |-> IF cfg["cond"] THEN FromConfig(<<"pressure_drops", "cond", "pr_cond_hot">>) ELSE Literal("1"),
   pr_ihx_hot |-> IF cfg["ihx"] THEN FromConfig(<<"pressure_drops", "ihx", "pr_ihx_hot">>) ELSE Literal("1"),
   pr_ihx_cold |-> IF cfg["ihx"] THEN FromConfig(<<"pressure_drops", "ihx", "pr_ihx_cold">>) ELSE Literal("1"),
   pr_eva_cold |-> IF cfg["eva"] THEN FromConfig(<<"pressure_drops", "eva", "pr_eva_cold">>) ELSE Literal("1"),
   ttd_l_cond |-> IF cfg["cond"] THEN FromConfig(<<"heat_pump", "ttd_l_cond">>) ELSE Literal("0"),
   ttd_u_ihx |-> IF cfg["ihx"] THEN FromConfig(<<"heat_pump", "ttd_u_ihx">>) ELSE Literal("0"),
   ttd_l_eva |-> IF cfg["eva"] THEN FromConfig(<<"heat_pump", "ttd_l_eva">>) ELSE Literal("0")]

\* orc_simultaneous: PRESSURE DROPS and HEAT PUMP; the evaporator marked
\* real gets 1 and 0.95 written in the code, the one not marked real gets
\* the two ratios of the configuration record
orc_parameters(cfg) ==
  [pr_cond_hot |-> IF cfg["cond"] THEN FromConfig(<<"pressure_drops", "cond", "pr_cond_hot">>) ELSE Literal("1"),
   pr_ihx_hot |-> IF cfg["ihx"] THEN FromConfig(<<"pressure_drops", "ihx", "pr_ihx_hot">>) ELSE Literal("1"),
   pr_ihx_cold |-> IF cfg["ihx"] THEN FromConfig(<<"pressure_drops", "ihx", "pr_ihx_cold">>) ELSE Literal("1"),
   pr_eva_hot |-> IF cfg["eva"] THEN Literal("1") ELSE FromConfig(<<"pressure_drops", "eva", "pr_eva_hot">>),
   pr_eva_cold |-> IF cfg["eva"] THEN Literal("0.95") ELSE FromConfig(<<"pressure_drops", "eva", "pr_eva_cold">>),
   ttd_l_cond |-> IF cfg["cond"] THEN FromConfig(<<"orc", "ttd_l_cond">>) ELSE Literal("0"),
   ttd_l_ihx |-> IF cfg["ihx"] THEN FromConfig(<<"orc", "ttd_l_ihx">>) ELSE Literal("0"),
   ttd_u_eva |-> IF cfg["eva"] THEN FromConfig(<<"orc", "ttd_u_eva">>) ELSE Literal("0")]
\* ---- the Newton solver: hp_simultaneous / orc_simultaneous ----
\* 1.0 and the tolerance 1e-4, in units of 1e-4
Ones == 10000
NewtonTol == 1

Residuals == IF cycle = "hp" THEN hp_residual ELSE orc_residual
Derivatives == IF cycle = "hp" THEN hp_derivatives ELSE orc_derivatives
JacobianWrites == IF cycle = "hp" THEN hp_jacobian_writes ELSE orc_jacobian_writes
Layout == IF cycle = "hp" THEN hp_layout ELSE orc_layout
Extract == IF cycle = "hp" THEN hp_extract ELSE orc_extract
Props == IF cycle = "hp" THEN hp_props ELSE orc_props
StreamRows == IF cycle = "hp" THEN hp_stream_rows ELSE orc_stream_rows

\* variables = np.array([...start values...])
StartValues(layout) == [k \in 1..Len(layout) |-> [q |-> layout[k], it |-> 0]]

\* np.linalg.norm(residual) > 1e-4, compared as squares; the sum saturates
\* at Ones^2 so that it stays inside 32-bit integers
RECURSIVE SumSq(_, _)
SumSq(val, k) ==
  IF k = 0 THEN 0
  ELSE LET s == SumSq(val, k - 1) + val[k] * val[k]
       IN IF s > Ones * Ones THEN Ones * Ones ELSE s
NormExceedsTol(val) == SumSq(val, Len(val)) > NewtonTol * NewtonTol

\* the values a residual evaluation may return: zero, norm exactly at the
\* tolerance, one entry above it, two entries at it (norm sqrt(2) * tol)
ResidualShapes(n) ==
  { [i \in 1..n |-> IF i = 1 THEN ab[1] ELSE IF i = 2 THEN ab[2] ELSE 0] : ab \in {<<0, 0>>, <<NewtonTol, 0>>, <<3 * NewtonTol, 0>>, <<NewtonTol, NewtonTol>>} }

\* jacobian = np.zeros((len(variables), len(variables))) followed by the
\* jacobian[i, j] = ... assignments in program order: a written cell holds
\* the last value written to it, every other cell of the n x n matrix is 0
ZeroEntry == [slot |-> -1, key |-> "0"]
Assemble(ws, n) ==
  [shape |-> <<n, n>>,
   cells |-> [c \in {<<ws[k].i, ws[k].j>> : k \in 1..Len(ws)} |->
                LET hits == {k \in 1..Len(ws) : ws[k].i = c[1] /\ ws[k].j = c[2]}
                    w == ws[CHOOSE k \in hits : \A l \in hits : l <= k]
                IN [slot |-> w.slot, key |-> w.key]]]
\* jacobian[i, j]
Entry(J, i, j) == IF <<i, j>> \in DOMAIN J.cells THEN J.cells[<<i, j>>] ELSE ZeroEntry
\* an index outside the matrix raises IndexError
WritesInRange(ws, n) == \A w \in Range(ws) : w.i \in 0..(n - 1) /\ w.j \in 0..(n - 1)

\* epsilon[c] on epsilon = None raises TypeError
UsesEpsilon(calls) == \E c \in Range(calls) : \E a \in Range(c.args) : a.t = "eps"

\* a loop that gives up after two passes
LoopCondition_capped == NormExceedsTol(residual.val) /\ iter_step < 2
\* the loop condition of the while statement
LoopCondition == NormExceedsTol(residual.val)

\* variables -= np.linalg.inv(jacobian).dot(residual)
NewtonUpdate(x) == [k \in 1..Len(x) |-> [x[k] EXCEPT !.it = @ + 1]]

\* one pass of the loop body: residual, derivatives, Jacobian, update
NewtonIteration ==
  /\ solver_pc = "iterating"
  /\ LoopCondition
  /\ iter_step < MaxIter
  /\ ~(UsesEpsilon(Residuals) /\ epsilon = "None")
  /\ WritesInRange(JacobianWrites, Len(variables))
  /\ \E val \in ResidualShapes(Len(Residuals)) :
       residual' = [at |-> variables[1].it, val |-> val, calls |-> Residuals]
  /\ derivs' = Derivatives
  /\ jacobian' = Assemble(JacobianWrites, Len(variables))
  /\ variables' = NewtonUpdate(variables)
  /\ iter_step' = iter_step + 1
  /\ UNCHANGED <<cycle, config, adex, epsilon, parameters, solver_pc, df_streams>>
  /\ UNCHANGED searchVars
  /\ UNCHANGED driverVars
  /\ UNCHANGED <<outVars, otherVars>>

\* a pass of the loop body that raises: the residual evaluation fails
\* (TypeError on epsilon = None, an invalid state in the property oracle),
\* a Jacobian index is out of range, or the Jacobian is singular
NewtonRaises ==
  /\ solver_pc = "iterating"
  /\ LoopCondition
  /\ iter_step < MaxIter
  /\ \/ UNCHANGED <<residual, derivs, jacobian>>
     \/ /\ ~(UsesEpsilon(Residuals) /\ epsilon = "None")
        /\ WritesInRange(JacobianWrites, Len(variables))
        /\ \E val \in ResidualShapes(Len(Residuals)) :
             residual' = [at |-> variables[1].it, val |-> val, calls |-> Residuals]
        /\ derivs' = Derivatives
        /\ jacobian' = Assemble(JacobianWrites, Len(variables))
  /\ solver_pc' = "error"
  /\ UNCHANGED <<cycle, config, adex, epsilon, parameters, variables, iter_step, df_streams>>
  /\ UNCHANGED searchVars
  /\ UNCHANGED driverVars
  /\ UNCHANGED <<outVars, otherVars>>

\* the value a name holds after the extraction
Resolve(name) ==
  LET hits == {i \in 1..Len(Extract) : Extract[i].q = name}
  IN IF hits = {} THEN [q |-> name, it |-> -1]
     ELSE LET x == Extract[CHOOSE i \in hits : \A j \in hits : j <= i]
          IN IF x.src.t = "var" THEN At(variables, x.src.k) ELSE [q |-> x.src.n, it |-> -1]
\* the property call that defines a temperature or an entropy
Prop(name) ==
  LET p == Props[CHOOSE i \in 1..Len(Props) : Props[i].q = name]
  IN [out |-> p.out, h |-> Resolve(p.h), p |-> Resolve(p.p), fluid |-> p.fluid]
\* df_streams.loc[node] = [m, T, h, p, s, fluid]
StreamTable ==
  [k \in 1..Len(StreamRows) |->
     LET r == StreamRows[k]
     IN [node |-> r.node, col |-> r, m |-> Resolve(r.m), T |-> Prop(r.T), h |-> Resolve(r.h),
         p |-> Resolve(r.p), s |-> Prop(r.s), fluid |-> r.fluid]]

\* the loop condition is false: extraction, stream table, energy balance
NewtonExit ==
  /\ solver_pc = "iterating"
  /\ ~LoopCondition
  /\ df_streams' = StreamTable
  /\ balance' = EnergyBalance(IF cycle = "hp" THEN hp_energy_balance ELSE orc_energy_balance, df_streams')
  /\ stdout' = stdout \o EnergyMessage(balance')
  /\ performance' = (IF cycle = "hp" THEN hp_cop(df_streams') ELSE orc_efficiency(df_streams'))
  /\ solver_pc' = "converged"
  /\ UNCHANGED <<cycle, config, adex, epsilon, parameters, variables, residual, derivs, jacobian, iter_step>>
  /\ UNCHANGED searchVars
  /\ UNCHANGED driverVars
  /\ UNCHANGED otherVars

\* the head of the solver: except FileNotFoundError prints and goes on
\* with epsilon = None
EpsilonMessage(eps) == IF eps = "None" THEN <<"File not found. Please run base case model first!">> ELSE <<>>

Init_Solver ==
  /\ cycle \in {"hp", "orc"}
  /\ config \in [Range(config_keys(cycle)) -> BOOLEAN]
  /\ adex \in BOOLEAN
  /\ epsilon \in {"loaded", "None"}
  /\ parameters = (IF cycle = "hp" THEN hp_parameters(config) ELSE orc_parameters(config))
  /\ variables = StartValues(Layout)
  /\ residual = [at |-> -1, val |-> [i \in 1..Len(variables) |-> Ones], calls |-> <<>>]
  /\ derivs = <<>>
  /\ jacobian = [shape |-> <<0, 0>>, cells |-> <<>>]
  /\ iter_step = 0
  /\ solver_pc = "iterating"
  /\ df_streams = <<>>
  /\ balance = <<>>
  /\ performance = <<>>
  /\ stdout = EpsilonMessage(epsilon)
  /\ SearchIdle
  /\ DriverIdle
  /\ LedgerIdle /\ RunIdle /\ CfgIdle /\ PostIdle /\ HxIdle /\ ModuleIdle

Next_Solver == NewtonIteration \/ NewtonRaises \/ NewtonExit

SpecSolver == Init_Solver /\ [][Next_Solver]_vars

\* ---- the design-pressure search: find_opt_p12 / find_opt_p33 ----
\* temperatures are integers in mK, pressures in Pa
\* target_min_td_cond: 5 K with a real condenser, 0 K otherwise
hp_target_min_td(cfg) == IF cfg["cond"] THEN 5000 ELSE 0
\* target_min_td_eva: 5 K with a real evaporator, 0 K otherwise
orc_target_min_td(cfg) == IF cfg["eva"] THEN 5000 ELSE 0
\* tolerance = 1e-3 K
search_tolerance == 1
\* learning_rate = 1e4 Pa/K and 5e4 Pa/K
hp_learning_rate == 10
orc_learning_rate == 50
\* adjustment = (target_min_td_cond - min_t_diff_cond) * learning_rate
hp_adjustment(target, mtd) == (target - mtd) * hp_learning_rate
\* adjustment = -(target_min_td_eva - min_t_diff_eva) * learning_rate
orc_adjustment(target, mtd) == (0 - (target - mtd)) * orc_learning_rate
\* p12_start / p33_start handed over by the drivers
hp_p12_start == 1300000
orc_p33_start_base == 2200000
orc_p33_start == 2800000

Abs(x) == IF x < 0 THEN 0 - x ELSE x
\* pinch differences a solve may return, placed around the target: far
\* below, just outside, on it, exactly one tolerance off, far above
PinchValues(target) == {target - 2000, target - 2, target, target + 1, target + 3000}
\* pinch differences of the solve that precedes the search
StartPinchValues == {0, 3000, 5000, 5001, 8000}

\* one call hp_simultaneous / orc_simultaneous(p, config=config, adex=adex,
\* unavoid=unavoid) that has returned, with the pinch difference it gave
Solve(p, pinch) == [p |-> p, config |-> config, adex |-> adex, unavoid |-> unavoid, pinch |-> pinch]
\* the solves made before with the same arguments
SolvedAt(p) == {s \in Range(solves) : s.p = p /\ s.config = config /\ s.adex = adex /\ s.unavoid = unavoid}
\* the pinch differences a solve at p may give: the solver computes its
\* result from its arguments and the input files alone, so a solve made
\* before with the same arguments fixes it
SolveResults(p, values) == IF SolvedAt(p) = {} THEN values ELSE {s.pinch : s \in SolvedAt(p)}

\* entry of find_opt: target, start values of the loop variables
SearchStart ==
  /\ search_pc = "start"
  /\ LET target == IF cycle = "hp" THEN hp_target_min_td(config) ELSE orc_target_min_td(config)
     IN /\ target_min_td' = target
        /\ min_t_diff' = target
        /\ diff' = min_t_diff_start - target
  /\ p_opt' = p_opt_start
  /\ step' = 0
  /\ search_pc' = "loop"
  /\ UNCHANGED <<p_opt_start, min_t_diff_start, solves>>
  /\ UNCHANGED solverVars
  /\ UNCHANGED driverVars
  /\ UNCHANGED <<outVars, otherVars>>

SearchCondition == Abs(diff) > search_tolerance
Adjustment ==
  IF cycle = "hp" THEN hp_adjustment(target_min_td, min_t_diff) ELSE orc_adjustment(target_min_td, min_t_diff)

\* one pass of the while loop: adjust the pressure, solve, measure again
SearchStep ==
  /\ search_pc = "loop"
  /\ SearchCondition
  /\ step < MaxSearchSteps
  /\ p_opt' = p_opt + Adjustment
  /\ \E pinch \in SolveResults(p_opt + Adjustment, PinchValues(target_min_td)) :
       /\ min_t_diff' = pinch
       /\ diff' = Abs(pinch - target_min_td)
       /\ solves' = Append(solves, Solve(p_opt + Adjustment, pinch))
  /\ step' = step + 1
  /\ UNCHANGED <<p_opt_start, min_t_diff_start, target_min_td, search_pc>>
  /\ UNCHANGED solverVars
  /\ UNCHANGED driverVars
  /\ UNCHANGED <<outVars, otherVars>>

\* a pass in which the solve raises: the exception leaves find_opt
SearchSolveRaises ==
  /\ search_pc = "loop"
  /\ SearchCondition
  /\ step < MaxSearchSteps
  /\ SolvedAt(p_opt + Adjustment) = {}
  /\ p_opt' = p_opt + Adjustment
  /\ search_pc' = "error"
  /\ UNCHANGED <<p_opt_start, min_t_diff_start, target_min_td, min_t_diff, diff, step, solves>>
  /\ UNCHANGED solverVars
  /\ UNCHANGED driverVars
  /\ UNCHANGED <<outVars, otherVars>>

\* the loop condition is false: return p_opt
SearchReturn ==
  /\ search_pc = "loop"
  /\ ~SearchCondition
  /\ search_pc' = "done"
  /\ UNCHANGED <<p_opt_start, min_t_diff_start, target_min_td, min_t_diff, p_opt, diff, step, solves>>
  /\ UNCHANGED solverVars
  /\ UNCHANGED driverVars
  /\ UNCHANGED <<outVars, otherVars>>

Init_Search ==
  /\ cycle \in {"hp", "orc"}
  /\ config \in [Range(config_keys(cycle)) -> BOOLEAN]
  /\ adex \in BOOLEAN
  /\ SolverIdle
  /\ p_opt_start \in (IF cycle = "hp" THEN {hp_p12_start} ELSE {orc_p33_start_base, orc_p33_start})
  /\ min_t_diff_start \in StartPinchValues
  /\ target_min_td = 0
  /\ min_t_diff = 0
  /\ p_opt = 0
  /\ diff = 0
  /\ step = 0
  /\ search_pc = "start"
  /\ solves = <<>>
  /\ DriverIdle
  /\ OutIdle /\ LedgerIdle /\ RunIdle /\ CfgIdle /\ PostIdle /\ HxIdle /\ ModuleIdle

Next_Search == SearchStart \/ SearchStep \/ SearchSolveRaises \/ SearchReturn

SpecSearch == Init_Search /\ [][Next_Search]_vars


\* ---- either loop on its own: a solve, or a design-pressure search ----
Init_Loops == Init_Solver \/ Init_Search

Next_Loops ==
  \/ NewtonIteration \/ NewtonRaises \/ NewtonExit
  \/ SearchStart \/ SearchStep \/ SearchSolveRaises \/ SearchReturn

SpecLoops == Init_Loops /\ [][Next_Loops]_vars
\* ---- the decomposition drivers: main_serial / main_multiprocess ----
\* a label is the sequence of the names that '_'.join puts together
\* set_adex_hp_config / set_adex_orc_config: args is the set of names given
set_adex_config(cyc, args) ==
  LET keys == config_keys(cyc)
      cfg == [k \in Range(keys) |-> k \in args]
      IsReal(k) == cfg[k]
      label_parts == SelectSeq(keys, IsReal)
  IN [config |-> cfg,
      label |-> IF label_parts = <<>> THEN <<"ideal">>
                ELSE IF \A k \in Range(keys) : cfg[k] THEN <<"real">>
                ELSE label_parts]

\* components, the list the drivers loop over
hp_components == <<"comp", "cond", "ihx", "val", "eva">>
orc_components == <<"pump", "eva", "ihx", "exp", "cond">>
components(cyc) == IF cyc = "hp" THEN hp_components ELSE orc_components

RECURSIVE Flatten(_)
Flatten(ss) == IF ss = <<>> THEN <<>> ELSE Head(ss) \o Flatten(Tail(ss))
\* every ordered pair of two different components
combinations2_ordered(s) ==
  Flatten([i \in 1..Len(s) |-> [j \in 1..(Len(s) - 1) |-> {s[i], s[IF j < i THEN j ELSE j + 1]}]])
\* list(itertools.combinations(components, 2))
combinations2(s) ==
  Flatten([i \in 1..(Len(s) - 1) |-> [j \in 1..(Len(s) - i) |-> {s[i], s[i + j]}]])

\* index of the component table of exergy_analysis_hp / exergy_analysis_orc
hp_df_comps_index == <<"comp", "cond", "ihx", "val", "eva", "tot">>
orc_df_comps_index == <<"pump", "eva", "ihx", "exp", "cond", "tot">>
df_comps_index(cyc) == IF cyc = "hp" THEN hp_df_comps_index ELSE orc_df_comps_index

\* one call perform_adex_*(p_start, config, label, df, adex, unavoid, save, print_results, calc_epsilon)
Run(p_start, cl, df, ad) ==
  [p_start |-> p_start, config |-> cl.config, label |-> cl.label, df |-> df, adex |-> ad,
   save |-> TRUE, calc_epsilon |-> TRUE]

\* the base case run without writing its component table
hp_base_run_unpublished(df) ==
  [Run(hp_p12_start, set_adex_config("hp", Range(hp_components)), df, FALSE) EXCEPT !.calc_epsilon = FALSE]

\* the base case of either driver
hp_base_run(df) == Run(hp_p12_start, set_adex_config("hp", Range(hp_components)), df, FALSE)
orc_base_run(df) == Run(orc_p33_start_base, set_adex_config("orc", Range(orc_components)), df, FALSE)
BaseRun(cyc, df) == IF cyc = "hp" THEN hp_base_run(df) ELSE orc_base_run(df)

\* the runs of the single components and of the pairs
SingleRuns(cyc, p_start, df) ==
  [i \in 1..Len(components(cyc)) |-> Run(p_start, set_adex_config(cyc, {components(cyc)[i]}), df, TRUE)]
PairRuns(cyc, p_start, df) ==
  LET component_pairs == combinations2(components(cyc))
  IN [i \in 1..Len(component_pairs) |-> Run(p_start, set_adex_config(cyc, component_pairs[i]), df, TRUE)]

\* main_serial of hp_simult.py: base, ideal (adex off), singles, pairs
hp_main_serial_runs ==
  <<hp_base_run("df_ed"), Run(hp_p12_start, set_adex_config("hp", {}), "df_ed", FALSE)>>
    \o SingleRuns("hp", hp_p12_start, "df_ed") \o PairRuns("hp", hp_p12_start, "df_ed")
\* main_serial of orc_simult.py: base, ideal (adex on), singles, pairs
orc_main_serial_runs ==
  <<orc_base_run("df_ed"), Run(orc_p33_start, set_adex_config("orc", {}), "df_ed", TRUE)>>
    \o SingleRuns("orc", orc_p33_start, "df_ed") \o PairRuns("orc", orc_p33_start, "df_ed")
\* tasks of main_multiprocess with the all-real run among them
hp_pool_tasks_with_real ==
  <<Run(hp_p12_start, set_adex_config("hp", Range(hp_components)), "df_ed_i", TRUE)>>
    \o SingleRuns("hp", hp_p12_start, "df_ed_i") \o PairRuns("hp", hp_p12_start, "df_ed_i")
\* tasks of main_multiprocess: ideal, singles, pairs, all on df_ed_i, adex on
hp_pool_tasks ==
  <<Run(hp_p12_start, set_adex_config("hp", {}), "df_ed_i", TRUE)>>
    \o SingleRuns("hp", hp_p12_start, "df_ed_i") \o PairRuns("hp", hp_p12_start, "df_ed_i")
orc_pool_tasks ==
  <<Run(orc_p33_start, set_adex_config("orc", {}), "df_ed_i", TRUE)>>
    \o SingleRuns("orc", orc_p33_start, "df_ed_i") \o PairRuns("orc", orc_p33_start, "df_ed_i")

\* the runs the parent process executes itself, in order
ParentRuns ==
  IF mode = "serial" THEN (IF cycle = "hp" THEN hp_main_serial_runs ELSE orc_main_serial_runs)
  ELSE <<BaseRun(cycle, "df_ed_base")>>
PoolTasks == IF cycle = "hp" THEN hp_pool_tasks ELSE orc_pool_tasks

\* csv files: the directory of the cycle and of unavoid, a stem, a label
OutDir(cyc, un) ==
  IF cyc = "hp" THEN (IF un THEN "outputs/adex_hp/hp_unavoid" ELSE "outputs/adex_hp")
  ELSE (IF un THEN "outputs/adex_orc/orc_unavoid" ELSE "outputs/adex_orc")
\* to_csv of the component table in perform_adex_*
comps_csv(cyc, un, label) == [dir |-> OutDir(cyc, un), stem |-> <<cyc, "comps">>, label |-> label]
\* to_csv of the stream table in perform_adex_*
streams_csv(cyc, un, label) == [dir |-> OutDir(cyc, un), stem |-> <<cyc, "streams">>, label |-> label]
\* read_csv at the head of hp_simultaneous / orc_simultaneous
epsilon_csv(cyc, un) ==
  IF cyc = "hp"
    THEN (IF un THEN [dir |-> "outputs/adex_hp/hp_unavoid", stem |-> <<"hp", "comps">>, label |-> <<"real">>]
          ELSE [dir |-> "outputs/adex_hp", stem |-> <<"hp", "comps">>, label |-> <<"real">>])
    ELSE (IF un THEN [dir |-> "outputs/adex_orc/orc_unavoid", stem |-> <<"orc", "comps">>, label |-> <<"real">>]
          ELSE [dir |-> "outputs/adex_orc", stem |-> <<"orc", "comps">>, label |-> <<"real">>])
\* to_csv of the assembled table in main_multiprocess
adex_ed_csv(cyc, un) == [dir |-> OutDir(cyc, un), stem |-> <<cyc, "adex_ed">>, label |-> <<>>]

\* df_ed.loc[(label, component), 'ED [kW]'] = ... for every component of
\* the table: an existing row is overwritten, a new one is appended
RECURSIVE SetRows(_, _, _)
SetRows(df, label, keys) ==
  IF keys = <<>> THEN df
  ELSE LET row == [label |-> label, key |-> Head(keys)]
       IN SetRows(IF row \in Range(df) THEN df ELSE Append(df, row), label, Tail(keys))

\* the files a run leaves behind
FilesOf(r) ==
  (IF r.calc_epsilon THEN {comps_csv(cycle, unavoid, r.label)} ELSE {})
    \cup (IF r.save THEN {streams_csv(cycle, unavoid, r.label)} ELSE {})

\* what is noted when a run starts its first solve
StartRecord(r) ==
  [label |-> r.label, config |-> r.config, adex |-> r.adex,
   real_returned |-> <<"real">> \in finished,
   epsilon_found |-> epsilon_csv(cycle, unavoid) \in files]

\* chunksize of Pool.starmap for n tasks on w processes, and the batches
ChunkSize(n, w) == (n \div (4 * w)) + (IF n % (4 * w) = 0 THEN 0 ELSE 1)
NumChunks(n, size) == (n + size - 1) \div size
ChunkTasks(c, n, size) == ((c - 1) * size + 1)..(IF c * size < n THEN c * size ELSE n)


\* ---- the ledger df_adex_analysis assembled at the end of a driver ----
\* main_serial of orc_simult.py reads the files under outputs/adex_orc
\* whatever unavoid is; main_multiprocess reads the directory of unavoid
LedgerUnavoid(md, un) == IF md = "serial" THEN FALSE ELSE un
\* to_csv of the ledger
adex_analysis_csv(cyc, md, un) == [dir |-> OutDir(cyc, LedgerUnavoid(md, un)), stem |-> <<cyc, "adex_analysis">>, label |-> <<>>]

\* k_l = f'{k}_{l}' whatever the index holds
PairLabel_unswapped(df, k, l) == <<k, l>>
\* k_l = f'{k}_{l}', or f'{l}_{k}' when (k_l, l) is not in df_ed.index
PairLabel(df, k, l) == IF [label |-> <<k, l>>, key |-> l] \in Range(df) THEN <<k, l>> ELSE <<l, k>>

\* the files the assembly reads: the component table and the stream table
\* of the base case, the stream tables of the single and of the pair runs
LedgerReads(cyc, md, un, df) ==
  LET u == LedgerUnavoid(md, un)
      cs == Range(components(cyc))
  IN {comps_csv(cyc, u, <<"real">>), streams_csv(cyc, u, <<"real">>)}
       \cup {streams_csv(cyc, u, <<k>>) : k \in cs}
       \cup {streams_csv(cyc, u, PairLabel(df, k, l)) : <<k, l>> \in {kl \in cs \X cs : kl[1] # kl[2]}}

\* the rows df_ed.loc[(label, key), 'ED [kW]'] is asked for
LedgerLookups(cyc, df) ==
  LET cs == Range(components(cyc))
  IN {[label |-> <<"real">>, key |-> k] : k \in cs} \cup {[label |-> <<k>>, key |-> k] : k \in cs}
       \cup {[label |-> PairLabel(df, kl[1], kl[2]), key |-> kl[1]] : kl \in {kl \in cs \X cs : kl[1] # kl[2]}}

\* the exception that ends the assembly, "" when there is none: a file
\* that is not there; a row that is not there; a table whose index holds a
\* pair twice, where .loc gives a Series that cannot be put into one cell
LedgerError(cyc, md, un, df, fs) ==
  IF ~(LedgerReads(cyc, md, un, df) \subseteq fs) THEN "FileNotFoundError"
  ELSE IF ~(LedgerLookups(cyc, df) \subseteq Range(df)) THEN "KeyError"
  ELSE IF \E i, j \in 1..Len(df) : i # j /\ df[i] = df[j] THEN "ValueError"
  ELSE ""

\* df_ed.loc[(label, key), 'ED [kW]'] and df.loc[n, 'm [kg/s]'] of the
\* stream table of a run, as the atoms of linear forms
ED(label, key) == Atom(<<"ED", label, key>>)
MassFlow(label) == Atom(<<"m", label>>)

RECURSIVE LinSum(_)
LinSum(fs) == IF fs = <<>> THEN <<>> ELSE LinAdd(Head(fs), LinSum(Tail(fs)))

\* 'ED EX l [kW]': ED kl - ED EN in main_multiprocess, ED EN - ED kl in
\* main_serial of orc_simult.py
ed_ex_l(md, ed_kl, ed_en) == IF md = "serial" THEN LinSub(ed_en, ed_kl) ELSE LinSub(ed_kl, ed_en)

\* the rows (k, '') and (k, l) of the ledger
df_adex_analysis(cyc, md, df) ==
  LET comps == components(cyc)
      others(k) == SelectSeq(comps, LAMBDA l : l # k)
      ed(k) == ED(<<"real">>, k)
      en(k) == ED(<<k>>, k)
      kl(k, l) == ED(PairLabel(df, k, l), k)
      ex(k) == LinSub(ed(k), en(k))
      exl(k) == [i \in 1..Len(others(k)) |-> ed_ex_l(md, kl(k, others(k)[i]), en(k))]
  IN [k \in Range(comps) |->
        [ED |-> ed(k),
         epsilon |-> IF k = comps[Len(comps)] THEN "nan" ELSE LinScale(100, Atom(<<"epsilon", k>>)),
         ED_EN |-> en(k),
         ED_EX |-> ex(k),
         m_EN |-> MassFlow(<<k>>),
         m_EX |-> LinSub(MassFlow(<<"real">>), MassFlow(<<k>>)),
         l |-> [i \in 1..Len(others(k)) |->
                  [l |-> others(k)[i],
                   m_EN |-> MassFlow(PairLabel(df, k, others(k)[i])),
                   m_EX |-> LinSub(MassFlow(<<"real">>), MassFlow(PairLabel(df, k, others(k)[i]))),
                   ED_kl |-> kl(k, others(k)[i]),
                   ED_EX_l |-> exl(k)[i]]],
         ED_MEXO |-> LinSub(ex(k), LinSum(exl(k)))]]

\* main_serial of hp_simult.py ends after its runs; the other three
\* drivers go on to assemble the ledger
BuildsLedger(cyc, md) == md = "multi" \/ cyc = "orc"

\* the assembly after the runs (and, in main_multiprocess, after the
\* table of the pool has been written): the ledger and its file, or the
\* exception that leaves the driver
LedgerAssembly ==
  /\ driver_pc = "done"
  /\ BuildsLedger(cycle, mode)
  /\ LET err == LedgerError(cycle, mode, unavoid, df_ed, files)
     IN IF err = ""
          THEN /\ ledger' = df_adex_analysis(cycle, mode, df_ed)
               /\ files' = files \cup {adex_analysis_csv(cycle, mode, unavoid)}
               /\ driver_pc' = "ledger"
               /\ passes' = passes \cup {unavoid}
          ELSE /\ ledger' = [error |-> err]
               /\ files' = files
               /\ driver_pc' = "ledger_error"
               /\ passes' = passes
  /\ UNCHANGED <<mode, unavoid, nworkers, next_run, cur_run, started, nstarted, finished, df_ed_base, df_ed, chunks>>
  /\ UNCHANGED <<solverVars, searchVars>>
  /\ UNCHANGED <<outVars, overtaken, runVars, cfgVars, postVars, hxVars, module_pc>>
\* the parent process begins its next run (first solve of perform_adex_*)
ParentRunStart ==
  /\ driver_pc = "runs"
  /\ cur_run = 0
  /\ next_run <= Len(ParentRuns)
  /\ started' = started \cup {StartRecord(ParentRuns[next_run])}
  /\ nstarted' = nstarted + 1
  /\ cur_run' = next_run
  /\ UNCHANGED <<mode, unavoid, nworkers, driver_pc, next_run, finished, files, df_ed_base, df_ed, chunks>>
  /\ UNCHANGED <<solverVars, searchVars>>
  /\ UNCHANGED <<outVars, ledgerVars, runVars, cfgVars, postVars, hxVars, moduleVars>>

\* the run of the parent process returns: rows into its table, csv files;
\* main_serial of hp_simult.py returns after its last run
ParentRunReturns ==
  /\ driver_pc = "runs"
  /\ cur_run # 0
  /\ LET r == ParentRuns[cur_run]
     IN /\ IF r.df = "df_ed"
             THEN /\ df_ed' = SetRows(df_ed, r.label, df_comps_index(cycle))
                  /\ UNCHANGED df_ed_base
             ELSE /\ df_ed_base' = SetRows(df_ed_base, r.label, df_comps_index(cycle))
                  /\ UNCHANGED df_ed
        /\ files' = files \cup FilesOf(r)
        /\ finished' = finished \cup {r.label}
  /\ cur_run' = 0
  /\ next_run' = next_run + 1
  /\ driver_pc' = IF cur_run < Len(ParentRuns) THEN "runs" ELSE IF mode = "serial" THEN "done" ELSE "pool"
  /\ passes' = IF cur_run = Len(ParentRuns) /\ ~BuildsLedger(cycle, mode) THEN passes \cup {unavoid} ELSE passes
  /\ UNCHANGED <<mode, unavoid, nworkers, started, nstarted, chunks>>
  /\ UNCHANGED <<solverVars, searchVars>>
  /\ UNCHANGED <<outVars, ledgerVars, runVars, cfgVars, postVars, hxVars, module_pc>>

\* the run of the parent process raises: the exception leaves the driver
ParentRunRaises ==
  /\ driver_pc = "runs"
  /\ cur_run # 0
  /\ driver_pc' = "error"
  /\ UNCHANGED <<mode, unavoid, nworkers, next_run, cur_run, started, nstarted, finished, files, df_ed_base, df_ed, chunks>>
  /\ UNCHANGED <<solverVars, searchVars>>
  /\ UNCHANGED <<outVars, ledgerVars, runVars, cfgVars, postVars, hxVars, moduleVars>>

\* pool.starmap(run_*_adex, tasks): the tasks are cut into batches
PoolSubmit ==
  /\ driver_pc = "pool"
  /\ LET size == ChunkSize(Len(PoolTasks), nworkers)
     IN chunks' = [c \in 1..NumChunks(Len(PoolTasks), size) |->
                     [tasks |-> ChunkTasks(c, Len(PoolTasks), size), st |-> "queued", pos |-> 0,
                      active |-> FALSE, acc |-> <<>>]]
  /\ driver_pc' = "map"
  /\ UNCHANGED <<mode, unavoid, nworkers, next_run, cur_run, started, nstarted, finished, files, df_ed_base, df_ed>>
  /\ UNCHANGED <<solverVars, searchVars>>
  /\ UNCHANGED <<outVars, ledgerVars, runVars, cfgVars, postVars, hxVars, moduleVars>>

Running == {c \in 1..Len(chunks) : chunks[c].st = "running"}
Queued == {c \in 1..Len(chunks) : chunks[c].st = "queued"}
Min(S) == CHOOSE x \in S : \A y \in S : x <= y
Max(S) == CHOOSE x \in S : \A y \in S : y <= x

\* a free worker takes the next batch off the queue: the batch is
\* unpickled as one object graph, so its tasks share one copy of the empty
\* df_ed_i; the worker begins the first run of the batch
WorkerTakesChunk ==
  /\ driver_pc = "map"
  /\ Queued # {}
  /\ Cardinality(Running) < nworkers
  /\ LET c == Min(Queued)
         t == Min(chunks[c].tasks)
     IN /\ chunks' = [chunks EXCEPT ![c] = [@ EXCEPT !.st = "running", !.pos = t, !.active = TRUE, !.acc = <<>>]]
        /\ started' = started \cup {StartRecord(PoolTasks[t])}
  /\ nstarted' = nstarted + 1
  /\ UNCHANGED <<mode, unavoid, nworkers, driver_pc, next_run, cur_run, finished, files, df_ed_base, df_ed>>
  /\ UNCHANGED <<solverVars, searchVars>>
  /\ UNCHANGED <<outVars, ledgerVars, runVars, cfgVars, postVars, hxVars, moduleVars>>

\* a worker begins the next run of its batch
WorkerNextRun ==
  /\ driver_pc = "map"
  /\ \E c \in Running :
       /\ ~chunks[c].active
       /\ chunks' = [chunks EXCEPT ![c] = [@ EXCEPT !.pos = @ + 1, !.active = TRUE]]
       /\ started' = started \cup {StartRecord(PoolTasks[chunks[c].pos + 1])}
  /\ nstarted' = nstarted + 1
  /\ UNCHANGED <<mode, unavoid, nworkers, driver_pc, next_run, cur_run, finished, files, df_ed_base, df_ed>>
  /\ UNCHANGED <<solverVars, searchVars>>
  /\ UNCHANGED <<outVars, ledgerVars, runVars, cfgVars, postVars, hxVars, moduleVars>>

\* a run in a worker returns the table it was given with its rows added;
\* after the last run of a batch the results of the batch are sent back
WorkerRunReturns ==
  /\ driver_pc = "map"
  /\ \E c \in Running :
       /\ chunks[c].active
       /\ LET r == PoolTasks[chunks[c].pos]
          IN /\ chunks' = [chunks EXCEPT ![c] =
                             [@ EXCEPT !.acc = SetRows(@, r.label, df_comps_index(cycle)),
                                       !.active = FALSE,
                                       !.st = IF chunks[c].pos = Max(chunks[c].tasks) THEN "done" ELSE "running"]]
             /\ files' = files \cup FilesOf(r)
             /\ finished' = finished \cup {r.label}
             /\ overtaken' = (overtaken \/ \E t \in 1..(chunks[c].pos - 1) : PoolTasks[t].label \notin finished)
  /\ UNCHANGED <<mode, unavoid, nworkers, driver_pc, next_run, cur_run, started, nstarted, df_ed_base, df_ed>>
  /\ UNCHANGED <<solverVars, searchVars>>
  /\ UNCHANGED <<outVars, ledger, runVars, cfgVars, postVars, hxVars, moduleVars>>

\* a run in a worker raises: starmap re-raises in the parent, which leaves
\* the driver; what the other workers still do is not followed
WorkerRunRaises ==
  /\ driver_pc = "map"
  /\ \E c \in Running : chunks[c].active
  /\ driver_pc' = "error"
  /\ UNCHANGED <<mode, unavoid, nworkers, next_run, cur_run, started, nstarted, finished, files, df_ed_base, df_ed, chunks>>
  /\ UNCHANGED <<solverVars, searchVars>>
  /\ UNCHANGED <<outVars, ledgerVars, runVars, cfgVars, postVars, hxVars, moduleVars>>

\* results of starmap, one per task in task order: every result of a batch
\* is the one table object the batch shared
PoolResults == [t \in 1..Len(PoolTasks) |-> chunks[CHOOSE c \in 1..Len(chunks) : t \in chunks[c].tasks].acc]

\* starmap hands back what is there as soon as one batch is back
PoolCollect_early ==
  /\ driver_pc = "map"
  /\ \E c \in 1..Len(chunks) : chunks[c].st = "done"
  /\ df_ed' = df_ed_base \o Flatten(PoolResults)
  /\ files' = files \cup {adex_ed_csv(cycle, unavoid)}
  /\ driver_pc' = "done"
  /\ UNCHANGED <<mode, unavoid, nworkers, next_run, cur_run, started, nstarted, finished, df_ed_base, chunks>>
  /\ UNCHANGED <<solverVars, searchVars>>
  /\ UNCHANGED <<outVars, ledgerVars, runVars, cfgVars, postVars, hxVars, moduleVars>>

\* all batches are back: concatenate the results, put the base rows in
\* front, write the table
PoolCollect ==
  /\ driver_pc = "map"
  /\ \A c \in 1..Len(chunks) : chunks[c].st = "done"
  /\ df_ed' = df_ed_base \o Flatten(PoolResults)
  /\ files' = files \cup {adex_ed_csv(cycle, unavoid)}
  /\ driver_pc' = "done"
  /\ UNCHANGED <<mode, unavoid, nworkers, next_run, cur_run, started, nstarted, finished, df_ed_base, chunks>>
  /\ UNCHANGED <<solverVars, searchVars>>
  /\ UNCHANGED <<outVars, ledgerVars, runVars, cfgVars, postVars, hxVars, moduleVars>>

Init_Driver ==
  /\ cycle \in {"hp", "orc"}
  /\ config = <<>>
  /\ adex = FALSE
  /\ SolverIdle
  /\ SearchIdle
  /\ OutIdle /\ LedgerIdle /\ RunIdle /\ CfgIdle /\ PostIdle /\ HxIdle /\ ModuleIdle
  /\ mode \in {"serial", "multi"}
  /\ unavoid \in BOOLEAN
  /\ nworkers \in (IF mode = "multi" THEN 1..MaxWorkers ELSE {0})
  /\ driver_pc = "runs"
  /\ next_run = 1
  /\ cur_run = 0
  /\ started = {}
  /\ nstarted = 0
  /\ finished = {}
  /\ files = {}
  /\ df_ed_base = <<>>
  /\ df_ed = <<>>
  /\ chunks = <<>>

Next_Driver ==
  \/ ParentRunStart \/ ParentRunReturns \/ ParentRunRaises
  \/ PoolSubmit \/ WorkerTakesChunk \/ WorkerNextRun \/ WorkerRunReturns \/ WorkerRunRaises \/ PoolCollect
  \/ LedgerAssembly

SpecDriver == Init_Driver /\ [][Next_Driver]_vars


\* ---- one run: perform_adex_hp / perform_adex_orc ----
\* the four checks on the stream table of the last solve:
\* df_opt.loc[hot, 'T'] < df_opt.loc[cold, 'T'] - 1e-3 prints msg
hp_approach_checks ==
  <<[hot |-> 12, cold |-> 21, msg |-> "Error: Lower temperature difference in COND is negative!"],
    [hot |-> 11, cold |-> 22, msg |-> "Error: Upper temperature difference in COND is negative!"],
    [hot |-> 12, cold |-> 16, msg |-> "Error: Upper temperature difference in IHX is negative!"],
    [hot |-> 13, cold |-> 15, msg |-> "Error: Lower temperature difference in IHX is negative!"]>>
orc_approach_checks ==
  <<[hot |-> 41, cold |-> 34, msg |-> "Error: Upper temperature difference in EVA is negative!"],
    [hot |-> 42, cold |-> 33, msg |-> "Error: Lower temperature difference in EVA is negative!"],
    [hot |-> 35, cold |-> 33, msg |-> "Error: Upper temperature difference in IHX is negative!"],
    [hot |-> 36, cold |-> 32, msg |-> "Error: Lower temperature difference in IHX is negative!"]>>
approach_checks(cyc) == IF cyc = "hp" THEN hp_approach_checks ELSE orc_approach_checks

\* the messages printed for a stream table, in the order of the checks
RECURSIVE ApproachMessages(_, _, _)
ApproachMessages(checks, neg, i) ==
  IF i > Len(checks) THEN <<>>
  ELSE (IF i \in neg THEN <<checks[i].msg>> ELSE <<>>) \o ApproachMessages(checks, neg, i + 1)

\* what a run that comes back leaves behind: the rows it puts into the
\* table it was given and the files it writes
RunRows(df, lab, cyc) == SetRows(df, lab, df_comps_index(cyc))
RunFiles(cyc, un, lab, calc, sv) ==
  (IF calc THEN {comps_csv(cyc, un, lab)} ELSE {}) \cup (IF sv THEN {streams_csv(cyc, un, lab)} ELSE {})

\* the first solve at the start pressure returns
RunFirstSolve ==
  /\ run_pc = "solve1"
  /\ run_pc' = "search"
  /\ UNCHANGED <<run_label, run_save, run_calc_epsilon, df_opt, failed>>
  /\ UNCHANGED <<solverVars, searchVars, driverVars, outVars, ledgerVars, cfgVars, postVars, hxVars, moduleVars>>

\* find_opt_p12 / find_opt_p33 returns the design pressure
RunSearch ==
  /\ run_pc = "search"
  /\ run_pc' = "solve3"
  /\ UNCHANGED <<run_label, run_save, run_calc_epsilon, df_opt, failed>>
  /\ UNCHANGED <<solverVars, searchVars, driverVars, outVars, ledgerVars, cfgVars, postVars, hxVars, moduleVars>>

\* the solve at the design pressure returns df_opt; which of the four
\* approach checks it fails is up to the numbers
RunFinalSolve ==
  /\ run_pc = "solve3"
  /\ \E neg \in SUBSET (1..Len(approach_checks(cycle))) : df_opt' = [neg |-> neg]
  /\ run_pc' = "exan"
  /\ UNCHANGED <<run_label, run_save, run_calc_epsilon, failed>>
  /\ UNCHANGED <<solverVars, searchVars, driverVars, outVars, ledgerVars, cfgVars, postVars, hxVars, moduleVars>>

\* a failure that is caught and the run carried on with an empty table
RunRaises_swallowed ==
  /\ run_pc \in {"solve1", "search", "solve3"}
  /\ failed' = TRUE
  /\ df_opt' = [neg |-> {}]
  /\ run_pc' = "exan"
  /\ UNCHANGED <<run_label, run_save, run_calc_epsilon>>
  /\ UNCHANGED <<solverVars, searchVars, driverVars, outVars, ledgerVars, cfgVars, postVars, hxVars, moduleVars>>

\* a solve (the first, one of the search, the last) or the property calls
\* of the exergy analysis raise: nothing in perform_adex catches it
RunRaises ==
  /\ run_pc \in {"solve1", "search", "solve3", "exan"}
  /\ failed' = TRUE
  /\ run_pc' = "raised"
  /\ UNCHANGED <<run_label, run_save, run_calc_epsilon, df_opt>>
  /\ UNCHANGED <<solverVars, searchVars, driverVars, outVars, ledgerVars, cfgVars, postVars, hxVars, moduleVars>>

\* exergy analysis, rows into df_ed, component csv, approach checks,
\* stream csv, return
RunRecords ==
  /\ run_pc = "exan"
  /\ df_ed' = RunRows(df_ed, run_label, cycle)
  /\ files' = files \cup RunFiles(cycle, unavoid, run_label, run_calc_epsilon, run_save)
  /\ stdout' = stdout \o ApproachMessages(approach_checks(cycle), df_opt.neg, 1)
  /\ run_pc' = "returned"
  /\ UNCHANGED <<run_label, run_save, run_calc_epsilon, df_opt, failed, balance, performance>>
  /\ UNCHANGED <<mode, unavoid, nworkers, driver_pc, next_run, cur_run, started, nstarted, finished, df_ed_base, chunks>>
  /\ UNCHANGED <<solverVars, searchVars, ledgerVars, cfgVars, postVars, hxVars, moduleVars>>

\* the label of a run that came before the one looked at
PriorLabel(lab) == IF lab = <<"real">> THEN <<"ideal">> ELSE <<"real">>

Init_Run ==
  /\ cycle \in {"hp", "orc"}
  /\ \E S \in {ks \in SUBSET Range(config_keys(cycle)) : Cardinality(ks) \in {0, 1, 2, 5}} :
       /\ config = set_adex_config(cycle, S).config
       /\ run_label = set_adex_config(cycle, S).label
  /\ adex \in BOOLEAN
  /\ SolverIdle /\ SearchIdle /\ OutIdle /\ LedgerIdle /\ CfgIdle /\ PostIdle /\ HxIdle /\ ModuleIdle
  /\ mode = "none"
  /\ unavoid \in BOOLEAN
  /\ nworkers = 0
  /\ driver_pc = "idle"
  /\ next_run = 0
  /\ cur_run = 0
  /\ started = {}
  /\ nstarted = 0
  /\ finished = {}
  /\ \E before \in BOOLEAN :
       /\ df_ed = (IF before THEN RunRows(<<>>, PriorLabel(run_label), cycle) ELSE <<>>)
       /\ files = (IF before THEN RunFiles(cycle, unavoid, PriorLabel(run_label), TRUE, TRUE) ELSE {})
  /\ df_ed_base = <<>>
  /\ chunks = <<>>
  /\ run_save \in BOOLEAN
  /\ run_calc_epsilon \in BOOLEAN
  /\ run_pc = "solve1"
  /\ df_opt = <<>>
  /\ failed = FALSE

Next_Run == RunFirstSolve \/ RunSearch \/ RunFinalSolve \/ RunRaises \/ RunRecords

SpecRun == Init_Run /\ [][Next_Run]_vars

\* ---- perform_adex_hp / perform_adex_orc with the search opened up ----
\* the first solve, at the start pressure, returns; its pinch difference
\* and the start pressure are handed to find_opt
AdexFirstSolve ==
  /\ run_pc = "solve1"
  /\ \E pinch \in SolveResults(p_opt_start, StartPinchValues) :
       /\ solves' = Append(solves, Solve(p_opt_start, pinch))
       /\ min_t_diff_start' = pinch
  /\ search_pc' = "start"
  /\ run_pc' = "search"
  /\ UNCHANGED <<p_opt_start, target_min_td, min_t_diff, p_opt, diff, step>>
  /\ UNCHANGED <<run_label, run_save, run_calc_epsilon, df_opt, failed>>
  /\ UNCHANGED <<solverVars, driverVars, outVars, ledgerVars, cfgVars, postVars, hxVars, moduleVars>>

\* the solve at the start pressure whatever find_opt returned
AdexFinalSolve_at_start ==
  /\ run_pc = "search"
  /\ search_pc = "done"
  /\ \E pinch \in SolveResults(p_opt_start, PinchValues(target_min_td)) :
       /\ solves' = Append(solves, Solve(p_opt_start, pinch))
       /\ df_opt' = [of |-> Solve(p_opt_start, pinch)]
  /\ run_pc' = "exan"
  /\ UNCHANGED <<p_opt_start, min_t_diff_start, target_min_td, min_t_diff, p_opt, diff, step, search_pc>>
  /\ UNCHANGED <<run_label, run_save, run_calc_epsilon, failed>>
  /\ UNCHANGED <<solverVars, driverVars, outVars, ledgerVars, cfgVars, postVars, hxVars, moduleVars>>
\* find_opt has returned: the solve at the pressure it returned gives
\* df_opt, the table the exergy analysis is made of
AdexFinalSolve ==
  /\ run_pc = "search"
  /\ search_pc = "done"
  /\ \E pinch \in SolveResults(p_opt, PinchValues(target_min_td)) :
       /\ solves' = Append(solves, Solve(p_opt, pinch))
       /\ df_opt' = [of |-> Solve(p_opt, pinch)]
  /\ run_pc' = "exan"
  /\ UNCHANGED <<p_opt_start, min_t_diff_start, target_min_td, min_t_diff, p_opt, diff, step, search_pc>>
  /\ UNCHANGED <<run_label, run_save, run_calc_epsilon, failed>>
  /\ UNCHANGED <<solverVars, driverVars, outVars, ledgerVars, cfgVars, postVars, hxVars, moduleVars>>

\* the first solve raises, or a solve of the search has raised, or the
\* last solve raises: nothing in perform_adex catches it
AdexRaises ==
  /\ \/ run_pc = "solve1" /\ SolvedAt(p_opt_start) = {}
     \/ run_pc = "search" /\ search_pc = "error"
     \/ run_pc = "search" /\ search_pc = "done" /\ SolvedAt(p_opt) = {}
  /\ failed' = TRUE
  /\ run_pc' = "raised"
  /\ UNCHANGED <<run_label, run_save, run_calc_epsilon, df_opt>>
  /\ UNCHANGED <<solverVars, searchVars, driverVars, outVars, ledgerVars, cfgVars, postVars, hxVars, moduleVars>>

Init_Adex ==
  /\ cycle \in {"hp", "orc"}
  /\ \E S \in {ks \in SUBSET Range(config_keys(cycle)) : Cardinality(ks) \in {0, 1, 2, 5}} :
       /\ config = set_adex_config(cycle, S).config
       /\ run_label = set_adex_config(cycle, S).label
  /\ adex \in BOOLEAN
  /\ SolverIdle /\ OutIdle /\ LedgerIdle /\ CfgIdle /\ PostIdle /\ HxIdle /\ ModuleIdle
  /\ p_opt_start \in (IF cycle = "hp" THEN {hp_p12_start} ELSE {orc_p33_start_base, orc_p33_start})
  /\ min_t_diff_start = 0
  /\ target_min_td = 0
  /\ min_t_diff = 0
  /\ p_opt = 0
  /\ diff = 0
  /\ step = 0
  /\ search_pc = "idle"
  /\ solves = <<>>
  /\ mode = "none"
  /\ unavoid \in BOOLEAN
  /\ nworkers = 0
  /\ driver_pc = "idle"
  /\ next_run = 0
  /\ cur_run = 0
  /\ started = {}
  /\ nstarted = 0
  /\ finished = {}
  /\ files = {}
  /\ df_ed_base = <<>>
  /\ df_ed = <<>>
  /\ chunks = <<>>
  /\ run_save = TRUE
  /\ run_calc_epsilon = TRUE
  /\ run_pc = "solve1"
  /\ df_opt = <<>>
  /\ failed = FALSE

Next_Adex ==
  \/ AdexFirstSolve \/ AdexFinalSolve \/ AdexRaises
  \/ SearchStart \/ SearchStep \/ SearchSolveRaises \/ SearchReturn

SpecAdex == Init_Adex /\ [][Next_Adex]_vars

\* ---- set_adex_hp_config / set_adex_orc_config on an argument list ----
\* the loop over args without the test 'arg in config'
RECURSIVE MarkArgs_unchecked(_, _)
MarkArgs_unchecked(r, names) ==
  IF names = <<>> THEN r
  ELSE MarkArgs_unchecked([r EXCEPT !.config = (Head(names) :> TRUE) @@ @], Tail(names))
\* for arg in args: a valid key is set to True, any other name is reported
\* and ignored
RECURSIVE MarkArgs(_, _)
MarkArgs(r, names) ==
  IF names = <<>> THEN r
  ELSE LET arg == Head(names)
       IN MarkArgs(IF arg \in DOMAIN r.config
                     THEN [r EXCEPT !.config[arg] = TRUE]
                     ELSE [r EXCEPT !.out = Append(@, <<"Warning: ", arg, " is not a valid key. It has been ignored.">>)],
                   Tail(names))
\* label_parts, '_'.join and the two reserved labels
LabelOf(keys, cfg) ==
  LET IsReal(k) == cfg[k]
      label_parts == SelectSeq(keys, IsReal)
  IN IF label_parts = <<>> THEN <<"ideal">>
     ELSE IF \A k \in DOMAIN cfg : cfg[k] THEN <<"real">>
     ELSE label_parts

\* names a caller may pass: the keys of the cycle and a name that is none
ArgNames(cyc) == Range(config_keys(cyc)) \cup {"tes"}

\* the call: config, label and the warnings printed
SetAdexConfig ==
  /\ cfg_pc = "call"
  /\ LET keys == config_keys(cycle)
         r == MarkArgs([config |-> [k \in Range(keys) |-> FALSE], out |-> <<>>], arg_seq)
     IN /\ config' = r.config
        /\ stdout' = stdout \o r.out
        /\ cfg_label' = LabelOf(keys, r.config)
  /\ cfg_pc' = "done"
  /\ UNCHANGED <<arg_seq, balance, performance>>
  /\ UNCHANGED <<cycle, adex, epsilon, parameters, variables, residual, derivs, jacobian, iter_step, solver_pc, df_streams>>
  /\ UNCHANGED <<searchVars, driverVars, ledgerVars, runVars, postVars, hxVars, moduleVars>>

Init_Config ==
  /\ cycle \in {"hp", "orc"}
  /\ config = <<>>
  /\ adex = FALSE
  /\ SolverIdle /\ SearchIdle /\ DriverIdle /\ OutIdle /\ LedgerIdle /\ RunIdle /\ PostIdle /\ HxIdle /\ ModuleIdle
  /\ arg_seq \in UNION {[1..n -> ArgNames(cycle)] : n \in 0..MaxArgs}
  /\ cfg_label = <<>>
  /\ cfg_pc = "call"

Next_Config == SetAdexConfig

SpecConfig == Init_Config /\ [][Next_Config]_vars

\* ---- post_process_adex_hp: avoidable and unavoidable parts ----
\* exergy destructions are kept in 0.001 kW where they come out of a run
\* and in 0.01 kW where they went through round(2)
\* x.round(2) of a value that is no tie
Round2(v) == (v + 5) \div 10

\* the row (k, '') of df_adex_analysis.round(2).to_csv: ED, ED EN and
\* ED EX = ED - ED EN are rounded each on its own
analysis_row(ed, en) == [ED |-> Round2(ed), ED_EN |-> Round2(en), ED_EX |-> Round2(ed - en)]

\* the columns of final_results for one component with the sign of the
\* avoidable part turned round
final_row_summed(b, u) ==
  [ED |-> b.ED, ED_EN |-> b.ED_EN, ED_EX |-> b.ED_EX, ED_UN |-> u.ED,
   ED_AV |-> b.ED + u.ED, ED_EN_UN |-> u.ED_EN, ED_EX_UN |-> u.ED - u.ED_EN,
   ED_EN_AV |-> b.ED_EN - u.ED_EN, ED_EX_AV |-> (b.ED + u.ED) - (b.ED_EN - u.ED_EN)]
\* the columns of final_results for one component, from its row (k, '')
\* of the base ledger (b) and of the unavoidable ledger (u)
final_row(b, u) ==
  [ED |-> b.ED, ED_EN |-> b.ED_EN, ED_EX |-> b.ED_EX, ED_UN |-> u.ED,
   ED_AV |-> b.ED - u.ED, ED_EN_UN |-> u.ED_EN, ED_EX_UN |-> u.ED - u.ED_EN,
   ED_EN_AV |-> b.ED_EN - u.ED_EN, ED_EX_AV |-> (b.ED - u.ED) - (b.ED_EN - u.ED_EN)]

final_results_csv == [dir |-> "outputs", stem |-> <<"final_results">>, label |-> <<>>]

\* the two read_csv succeed
PostRead ==
  /\ post_pc = "call"
  /\ DOMAIN analysis_csv.base # {} /\ DOMAIN analysis_csv.unavoid # {}
  /\ results_base' = analysis_csv.base
  /\ results_unavoid' = analysis_csv.unavoid
  /\ post_pc' = "read"
  /\ UNCHANGED <<analysis_csv, final_results>>
  /\ UNCHANGED <<solverVars, searchVars, driverVars, outVars, ledgerVars, runVars, cfgVars, hxVars, moduleVars>>

\* one of the two files is not there: FileNotFoundError leaves the function
PostReadRaises ==
  /\ post_pc = "call"
  /\ DOMAIN analysis_csv.base = {} \/ DOMAIN analysis_csv.unavoid = {}
  /\ post_pc' = "raised"
  /\ UNCHANGED <<analysis_csv, results_base, results_unavoid, final_results>>
  /\ UNCHANGED <<solverVars, searchVars, driverVars, outVars, ledgerVars, runVars, cfgVars, hxVars, moduleVars>>

\* the loop over the components of results_base
PostCompute ==
  /\ post_pc = "read"
  /\ final_results' = [k \in DOMAIN results_base |-> final_row(results_base[k], results_unavoid[k])]
  /\ post_pc' = "computed"
  /\ UNCHANGED <<analysis_csv, results_base, results_unavoid>>
  /\ UNCHANGED <<solverVars, searchVars, driverVars, outVars, ledgerVars, runVars, cfgVars, hxVars, moduleVars>>

\* final_results.round(2).to_csv: the values are whole multiples of 0.01
PostWrite ==
  /\ post_pc = "computed"
  /\ files' = files \cup {final_results_csv}
  /\ post_pc' = "done"
  /\ UNCHANGED <<analysis_csv, results_base, results_unavoid, final_results>>
  /\ UNCHANGED <<mode, unavoid, nworkers, driver_pc, next_run, cur_run, started, nstarted, finished, df_ed_base, df_ed, chunks>>
  /\ UNCHANGED <<solverVars, searchVars, outVars, ledgerVars, runVars, cfgVars, hxVars, moduleVars>>

\* exergy destructions of a run, 0.001 kW, none of them (and no
\* difference of two of them) half way between two multiples of 0.01
EdValues == {494, 506, 1004, 1496}
\* the ledger rows of the components not varied
FixedRows == [base |-> analysis_row(2004, 1006), unavoid |-> analysis_row(1504, 996)]

\* the two ledger files as earlier executions have left them
PostArena ==
  /\ cycle = "hp"
  /\ config = <<>>
  /\ adex = FALSE
  /\ SolverIdle /\ SearchIdle /\ OutIdle /\ LedgerIdle /\ RunIdle /\ CfgIdle /\ HxIdle
  /\ mode = "none"
  /\ unavoid = FALSE
  /\ nworkers = 0
  /\ driver_pc = "idle"
  /\ next_run = 0
  /\ cur_run = 0
  /\ started = {}
  /\ nstarted = 0
  /\ finished = {}
  /\ df_ed_base = <<>>
  /\ df_ed = <<>>
  /\ chunks = <<>>
  /\ \E k0 \in Range(hp_components), ed, en, ed_un, en_un \in EdValues, there_b, there_u \in BOOLEAN :
       /\ analysis_csv =
            [base |-> IF there_b
                        THEN [k \in Range(hp_components) |-> IF k = k0 THEN analysis_row(ed, en) ELSE FixedRows.base]
                        ELSE <<>>,
             unavoid |-> IF there_u
                           THEN [k \in Range(hp_components) |-> IF k = k0 THEN analysis_row(ed_un, en_un) ELSE FixedRows.unavoid]
                           ELSE <<>>]
       /\ files = (IF there_b THEN {adex_analysis_csv("hp", "multi", FALSE)} ELSE {})
                    \cup (IF there_u THEN {adex_analysis_csv("hp", "multi", TRUE)} ELSE {})
  /\ results_base = <<>>
  /\ results_unavoid = <<>>
  /\ final_results = <<>>

Init_Post == PostArena /\ post_pc = "call" /\ ModuleIdle

Next_Post == PostRead \/ PostReadRaises \/ PostCompute \/ PostWrite

SpecPost == Init_Post /\ [][Next_Post]_vars

\* ---- func_fix.heat_exchanger: the branches with both mass flows known ----
\* the value of a table cell not filled in yet
nan == -1000000
\* positions of dec_vect: m_hot, m_cold, h_hot_in, h_hot_out, h_cold_in,
\* h_cold_out, ttd_u, ttd_l, ideal
\* (1) one thermodynamic state is unknown
OneUnknown == {<<1, 1, 1, 1, 1, 0, 0, 0>>, <<1, 1, 1, 1, 0, 1, 0, 0>>,
               <<1, 1, 1, 0, 1, 1, 0, 0>>, <<1, 1, 0, 1, 1, 1, 0, 0>>}
\* (2) one state of each side is unknown, one terminal difference is given
TwoUnknown == {<<1, 1, 1, 0, 1, 0, 1, 0>>, <<1, 1, 1, 0, 1, 0, 0, 1>>,
               <<1, 1, 0, 1, 0, 1, 1, 0>>, <<1, 1, 0, 1, 0, 1, 0, 1>>}
dec_vect(known, ideal) == known \o <<ideal>>

\* the four enthalpies with which the function writes the table back;
\* psi is the enthalpy PSI('H', 'P', p, 'T', T) gives for the state fixed by
\* the terminal difference (or by the entropy balance), psi2 the one of the
\* second state fixed by the entropy balance
heat_exchanger(dec, m, h, psi, psi2) ==
  CASE dec = <<1, 1, 1, 1, 1, 0, 0, 0, FALSE>> ->
         [h EXCEPT !.cold_out = h.cold_in + ((m.hot * (h.hot_in - h.hot_out)) \div m.cold)]
    [] dec = <<1, 1, 1, 1, 0, 1, 0, 0, FALSE>> ->
         [h EXCEPT !.cold_in = h.cold_out - ((m.hot * (h.hot_in - h.hot_out)) \div m.cold)]
    [] dec = <<1, 1, 1, 0, 1, 1, 0, 0, FALSE>> ->
         [h EXCEPT !.hot_out = h.hot_in + ((m.cold * (h.cold_in - h.cold_out)) \div m.hot)]
    [] dec = <<1, 1, 0, 1, 1, 1, 0, 0, FALSE>> ->
         [h EXCEPT !.hot_in = h.hot_out - ((m.cold * (h.cold_in - h.cold_out)) \div m.hot)]
    [] dec = <<1, 1, 1, 0, 1, 0, 1, 0, FALSE>> ->
         [h EXCEPT !.cold_out = psi,
                   !.hot_out = h.hot_in + ((m.cold * (h.cold_in - psi)) \div m.hot)]
    [] dec = <<1, 1, 1, 0, 1, 0, 0, 1, FALSE>> ->
         [h EXCEPT !.hot_out = psi,
                   !.cold_out = ((m.hot * (psi - h.hot_in)) \div m.cold) + h.cold_in]
    [] dec = <<1, 1, 0, 1, 0, 1, 1, 0, FALSE>> ->
         [h EXCEPT !.hot_in = psi,
                   !.cold_in = h.cold_out - ((m.hot * (psi - h.hot_out)) \div m.cold)]
    [] dec = <<1, 1, 0, 1, 0, 1, 0, 1, FALSE>> ->
         [h EXCEPT !.cold_in = psi,
                   !.hot_in = psi - ((m.cold * (psi - h.cold_out)) \div m.hot)]
    [] dec = <<1, 1, 1, 1, 1, 0, 0, 0, TRUE>> -> [h EXCEPT !.cold_out = psi]
    [] dec = <<1, 1, 1, 1, 0, 1, 0, 0, TRUE>> -> [h EXCEPT !.cold_in = psi]
    [] dec = <<1, 1, 1, 0, 1, 1, 0, 0, TRUE>> -> [h EXCEPT !.hot_out = psi]
    [] dec = <<1, 1, 0, 1, 1, 1, 0, 0, TRUE>> -> [h EXCEPT !.hot_in = psi]
    [] dec = <<1, 1, 1, 0, 1, 0, 1, 0, TRUE>> -> [h EXCEPT !.cold_out = psi, !.hot_out = psi2]
    [] dec = <<1, 1, 1, 0, 1, 0, 0, 1, TRUE>> -> [h EXCEPT !.hot_out = psi, !.cold_out = psi2]
    [] dec = <<1, 1, 0, 1, 0, 1, 1, 0, TRUE>> -> [h EXCEPT !.hot_in = psi, !.cold_in = psi2]
    [] dec = <<1, 1, 0, 1, 0, 1, 0, 1, TRUE>> -> [h EXCEPT !.cold_in = psi, !.hot_in = psi2]
    [] OTHER -> h

\* mass flows and enthalpies of the model: every quotient of the energy
\* balance is a whole number
MassFlows == {1, 2}
HotIn == {400, 420}
HotOut == {300, 340}
ColdIn == {100, 120}
ColdOut == {200, 260}
PsiValues == {180, 360}

HeatExchanger ==
  /\ hx_pc = "call"
  /\ \E psi, psi2 \in PsiValues : hx_h' = heat_exchanger(hx_dec, hx_m, hx_h, psi, psi2)
  /\ hx_pc' = "returned"
  /\ UNCHANGED <<hx_dec, hx_m>>
  /\ UNCHANGED <<solverVars, searchVars, driverVars, outVars, ledgerVars, runVars, cfgVars, postVars, moduleVars>>

Init_Hx ==
  /\ cycle = "hp"
  /\ config = <<>>
  /\ adex = FALSE
  /\ SolverIdle /\ SearchIdle /\ DriverIdle /\ OutIdle /\ LedgerIdle /\ RunIdle /\ CfgIdle /\ PostIdle /\ ModuleIdle
  /\ \E known \in OneUnknown \cup TwoUnknown, ideal \in BOOLEAN : hx_dec = dec_vect(known, ideal)
  /\ hx_m \in [hot : MassFlows, cold : MassFlows]
  /\ \E hi \in HotIn, ho \in HotOut, ci \in ColdIn, co \in ColdOut :
       hx_h = [hot_in |-> IF hx_dec[3] = 1 THEN hi ELSE nan,
               hot_out |-> IF hx_dec[4] = 1 THEN ho ELSE nan,
               cold_in |-> IF hx_dec[5] = 1 THEN ci ELSE nan,
               cold_out |-> IF hx_dec[6] = 1 THEN co ELSE nan]
  /\ hx_pc = "call"

Next_Hx == HeatExchanger

SpecHx == Init_Hx /\ [][Next_Hx]_vars

\* ---- one execution of the module hp_simult.py (the statements after the definitions) ----
\* the statement that holds the calls of main_multiprocess / main_serial is
\* a string literal: evaluating it calls no driver
ModuleMain ==
  /\ module_pc = "main"
  /\ module_pc' = "post"
  /\ UNCHANGED passes
  /\ UNCHANGED <<solverVars, searchVars, driverVars, outVars, ledgerVars, runVars, cfgVars, postVars, hxVars>>

\* post_process_adex_hp() at module level, outside any condition
ModuleCallsPost ==
  /\ module_pc = "post"
  /\ post_pc = "idle"
  /\ post_pc' = "call"
  /\ module_pc' = "in_post"
  /\ UNCHANGED <<analysis_csv, results_base, results_unavoid, final_results, passes>>
  /\ UNCHANGED <<solverVars, searchVars, driverVars, outVars, ledgerVars, runVars, cfgVars, hxVars>>

\* post_process_adex_hp has returned or raised: the execution goes on to
\* the statements after it, or ends with the exception
ModuleEnds ==
  /\ module_pc = "in_post"
  /\ post_pc \in {"done", "raised"}
  /\ module_pc' = IF post_pc = "done" THEN "end" ELSE "raised"
  /\ UNCHANGED passes
  /\ UNCHANGED <<solverVars, searchVars, driverVars, outVars, ledgerVars, runVars, cfgVars, postVars, hxVars>>

Init_Module == PostArena /\ post_pc = "idle" /\ module_pc = "main" /\ passes = {}

Next_Module ==
  \/ ModuleMain \/ ModuleCallsPost \/ ModuleEnds
  \/ PostRead \/ PostReadRaises \/ PostCompute \/ PostWrite

SpecModule == Init_Module /\ [][Next_Module]_vars
\* ---- properties of the Newton solver (checked under SpecSolver) ----

\* C1: when the solver is 'converged', the unknown vector it hands on to
\* post-processing is exactly the vector at which the residual that passed
\* the tolerance test was evaluated: no Newton update was applied after that
\* evaluation.
C1_HandedVectorIsEvaluationPoint ==
  solver_pc = "converged" => \A k \in 1..Len(variables) : variables[k].it = residual.at

\* the component whose flag selects the variant of an equation slot
hp_slot_component == (0 :> "comp") @@ (1 :> "ihx") @@ (2 :> "cond") @@ (5 :> "cond") @@ (8 :> "ihx") @@ (11 :> "val")
orc_slot_component == (2 :> "pump") @@ (3 :> "ihx") @@ (9 :> "exp") @@ (10 :> "ihx") @@ (14 :> "eva")
SlotComponent == IF cycle = "hp" THEN hp_slot_component ELSE orc_slot_component

\* the three forms of a relation: driven by a measured epsilon[c]
\* ("exergetic"), the ideal limit ("ideal"), or the physical relation
EpsKeys(call) == {a.n : a \in {b \in Range(call.args) : b.t = "eps"}}
Kind(call) ==
  IF EpsKeys(call) # {} THEN "exergetic"
  ELSE IF \/ call.rel \in {"ideal_he_entropy", "ideal_ihx_entropy", "ideal_valve_entropy", "same_temperature"}
          \/ call.rel \in {"eps_compressor", "eps_expander", "ttd_temperature"} /\ call.args[1] = K("1")
       THEN "ideal"
       ELSE "physical"

\* C3 as stated: in every evaluated system, a component marked real in a run
\* with adex off has the physical form, a component marked ideal that is not
\* given the epsilon-driven form has the ideal-limit form, and the
\* epsilon-driven form is selected only for a component marked ideal in a
\* run with adex on, never for a component marked real.
C3_Original ==
  residual.calls # <<>> =>
    \A s \in DOMAIN SlotComponent :
      LET c == SlotComponent[s]
          k == Kind(At(residual.calls, s))
      IN /\ (~adex /\ config[c]) => k = "physical"
         /\ (~config[c] /\ k # "exergetic") => k = "ideal"
         /\ k = "exergetic" => (adex /\ ~config[c])

\* C3 amended: with adex off every component-dependent slot has the physical
\* form whatever the marking; the ideal-limit form is selected only for a
\* component marked ideal in a run with adex on; the epsilon-driven form is
\* selected only for a component marked real in a run with adex on, with
\* that component's own epsilon, never for a component marked ideal.
C3_Amended ==
  residual.calls # <<>> =>
    \A s \in DOMAIN SlotComponent :
      LET c == SlotComponent[s]
          call == At(residual.calls, s)
          k == Kind(call)
      IN /\ ~adex => k = "physical"
         /\ k = "ideal" => (adex /\ ~config[c])
         /\ k = "exergetic" => (adex /\ config[c] /\ EpsKeys(call) = {c})
         /\ (adex /\ ~config[c]) => k # "exergetic"

\* an adex run of the heat pump with the compressor real and the internal
\* heat exchanger ideal has been assembled and solved
C3_Witness ==
  /\ solver_pc = "converged" /\ cycle = "hp" /\ adex /\ config["comp"] /\ ~config["ihx"]
  /\ Kind(At(residual.calls, 0)) = "exergetic"
  /\ Kind(At(residual.calls, 8)) = "ideal"

\* C4: in every pass of the loop each equation slot has one residual call,
\* and the derivative call of the slot is the derivative counterpart of that
\* call (same relation name) with the same arguments.
C4_DerivativeMatchesResidual ==
  residual.calls # <<>> =>
    /\ Len(residual.calls) = Len(variables)
    /\ Len(derivs) = Len(residual.calls)
    /\ \A i \in 1..Len(residual.calls) :
         /\ residual.calls[i].form = "func"
         /\ Signature(residual.calls[i].rel) # <<>>
         /\ derivs[i] = [residual.calls[i] EXCEPT !.form = "deriv"]

\* an ORC adex run with pump real and expander ideal went through two passes
C4_Witness ==
  /\ cycle = "orc" /\ adex /\ config["pump"] /\ ~config["exp"] /\ iter_step = 2
  /\ At(derivs, 2).rel = "eps_compressor" /\ At(derivs, 9).args[1] = K("1")

\* position of a parameter name in a signature, 0-based, -1 if absent
ParamIndex(rel, key) ==
  LET sig == Signature(rel)
      hits == {p \in 1..Len(sig) : sig[p] = key}
  IN IF hits = {} THEN -1 ELSE (CHOOSE p \in hits : TRUE) - 1

\* C5: every Jacobian entry (i, j) that is written holds a partial of slot
\* i's own derivative, taken with respect to the parameter for which the
\* residual call of slot i receives variables[j]; every unknown read by
\* residual i has its entry written, and all other entries are zero.
C5_JacobianEntryIsPartial ==
  residual.calls # <<>> =>
    /\ \A c \in DOMAIN jacobian.cells :
         LET e == jacobian.cells[c]
             call == At(residual.calls, c[1])
             p == ParamIndex(call.rel, e.key)
         IN e.slot = c[1] /\ p >= 0 /\ p < Len(call.args) /\ At(call.args, p) = V(c[2])
    /\ \A i \in 0..(Len(residual.calls) - 1) :
         \A a \in Range(At(residual.calls, i).args) :
           a.t = "var" => <<i, a.k>> \in DOMAIN jacobian.cells

\* C6: the unknown vector has 24 (heat pump) or 23 (ORC) positions with a
\* fixed meaning, the residual has the same length, the Jacobian is square
\* of that dimension in every pass, and the stream table holds in the column
\* of each quantity the unknown that was started from that quantity.
C6_FixedLayout ==
  LET n == IF cycle = "hp" THEN 24 ELSE 23
  IN /\ Len(variables) = n
     /\ Len(residual.val) = n
     /\ \A k \in 1..n : variables[k].q = Layout[k]
     /\ iter_step > 0 => (jacobian.shape = <<n, n>> /\ Len(residual.calls) = n)
     /\ solver_pc = "converged" =>
          \A r \in Range(df_streams) :
            /\ r.h.it = iter_step /\ r.h.q = r.col.h
            /\ \A x \in {r.p, r.m} : x.it \in {-1, iter_step}
            /\ r.p.it >= 0 => r.p.q = r.col.p
            /\ r.m.it >= 0 => r.m.q = r.col.m
            /\ r.T.h = r.h /\ r.s.h = r.h

\* a heat-pump solve with condenser real has built its stream table
C6_Witness ==
  /\ solver_pc = "converged" /\ cycle = "hp" /\ config["cond"] /\ Len(df_streams) = 12
  /\ df_streams[2].h = [q |-> "h12", it |-> iter_step]


\* C19: for every converged run of either cycle the global energy balance
\* the solver evaluates on its stream table is zero (every product of a mass
\* flow and an enthalpy cancels), so the report 'Energy balances are not
\* fulfilled' is not printed.
C19_EnergyBalanceHolds ==
  solver_pc = "converged" =>
    /\ IsZero(balance)
    /\ \A i \in 1..Len(stdout) : stdout[i] # "Energy balances are not fulfilled! :("

\* a heat-pump solve converged after two updates and its balance was taken
\* over the stream table of the updated unknowns
C19_Witness ==
  /\ solver_pc = "converged" /\ cycle = "hp" /\ iter_step = 2 /\ Len(df_streams) = 12
  /\ Loc(df_streams, 11).h = [q |-> "h11", it |-> 2]
  /\ Loc(df_streams, 21).m.it = -1

\* C14: a solve with adex on that found no exergy-efficiency record of the
\* real run (epsilon = None) fails before its first pass, whatever the
\* configuration: it evaluates no residual, applies no update and never
\* returns a stream table.
C14_FailsFastWithoutEpsilon ==
  (adex /\ epsilon = "None") =>
    /\ residual.at = -1
    /\ iter_step = 0
    /\ solver_pc # "converged"

\* C24: in the stream table of a converged solve of either cycle, the
\* enthalpy and the pressure recorded in a node's row are the pair handed
\* to the property calls that gave the temperature and the entropy of that
\* row; no row holds the pressure of another node.
C24_RowHoldsOwnState ==
  solver_pc = "converged" =>
    \A r \in Range(df_streams) :
      /\ r.T.h = r.h /\ r.T.p = r.p
      /\ r.s.h = r.h /\ r.s.p = r.p

\* the pressure ratios and the approach temperature of a heat exchanger
HxPressureRatios(cyc, hx) ==
  IF cyc = "hp"
    THEN (IF hx = "cond" THEN {"pr_cond_cold", "pr_cond_hot"}
          ELSE IF hx = "ihx" THEN {"pr_ihx_hot", "pr_ihx_cold"} ELSE {"pr_eva_cold"})
    ELSE (IF hx = "cond" THEN {"pr_cond_hot"}
          ELSE IF hx = "ihx" THEN {"pr_ihx_hot", "pr_ihx_cold"} ELSE {"pr_eva_hot", "pr_eva_cold"})
HxApproach(cyc, hx) ==
  IF cyc = "hp" THEN (IF hx = "cond" THEN "ttd_l_cond" ELSE IF hx = "ihx" THEN "ttd_u_ihx" ELSE "ttd_l_eva")
  ELSE (IF hx = "cond" THEN "ttd_l_cond" ELSE IF hx = "ihx" THEN "ttd_l_ihx" ELSE "ttd_u_eva")

\* C28: in a solve of either cycle, a heat exchanger (condenser, internal
\* heat exchanger, evaporator) not marked real has every pressure ratio 1
\* and the approach temperature 0, and one marked real has its pressure
\* ratios and its approach temperature from the configuration record.
C28_HeatExchangerIdealization ==
  solver_pc \in {"iterating", "converged", "error"} =>
    \A hx \in {"cond", "ihx", "eva"} :
      /\ \A n \in HxPressureRatios(cycle, hx) :
           parameters[n] = (IF config[hx] THEN FromConfig(parameters[n].path) ELSE Literal("1"))
      /\ parameters[HxApproach(cycle, hx)] =
           (IF config[hx] THEN FromConfig(parameters[HxApproach(cycle, hx)].path) ELSE Literal("0"))
      /\ config[hx] => \A n \in HxPressureRatios(cycle, hx) \cup {HxApproach(cycle, hx)} : parameters[n].path # <<>>

\* C26: the efficiency an ORC solve returns is the total power the exergy
\* analysis reports for the same stream table divided by the heat input
\* of the evaporator, as the cop a heat-pump solve returns is the heat of
\* the condenser divided by the total power of the exergy analysis.
C26_EfficiencyUsesTotalPower ==
  solver_pc = "converged" =>
    IF cycle = "hp"
      THEN /\ performance.den = hp_total_power(df_streams)
           /\ performance.num = SumOf(hp_energy_balance, <<Q(1, 3)>>, df_streams)
      ELSE /\ performance.num = orc_total_power(df_streams)
           /\ performance.den = SumOf(orc_energy_balance, <<Q(1, 1)>>, df_streams)
\* ---- properties of the design-pressure search (checked under SpecSearch) ----

C8_Original ==
  search_pc \in {"loop", "done", "error"} =>
    target_min_td = (IF \A c \in DOMAIN config : ~config[c] THEN 0 ELSE 5000)

\* C8 amended: the target is 5 K exactly when the component the pinch is
\* measured in is marked real (the condenser of the heat pump, the
\* evaporator of the ORC) and 0 K for every other configuration, whatever
\* the other components are.
C8_Amended ==
  search_pc \in {"loop", "done", "error"} =>
    target_min_td = (IF config[IF cycle = "hp" THEN "cond" ELSE "eva"] THEN 5000 ELSE 0)

\* a heat-pump search with real compressor and ideal condenser took a step
\* towards the target 0 K
C8_Witness ==
  /\ cycle = "hp" /\ config["comp"] /\ ~config["cond"] /\ step = 1 /\ target_min_td = 0


\* C22: in every search step, the first included, the pressure is changed
\* by the adjustment computed from the pinch difference of the most recent
\* solve (before the first step: the one of the solve at the starting
\* pressure, handed in as min_t_diff_start), so the first solve of the loop
\* is made at a pressure other than the starting one.
C22_StepUsesLastRealizedPinch ==
  [][step' = step + 1 =>
       LET realized == IF step = 0 THEN min_t_diff_start ELSE min_t_diff
       IN /\ p_opt' = p_opt + (IF cycle = "hp" THEN hp_adjustment(target_min_td, realized)
                               ELSE orc_adjustment(target_min_td, realized))
          /\ step = 0 => p_opt' # p_opt_start]_vars

\* ---- properties of the two loops (checked under SpecLoops) ----

\* the pinch difference the search tested last: the one handed in before
\* the first step, the one of the last solve after it
TestedPinch == IF step = 0 THEN min_t_diff_start ELSE min_t_diff

ExpectedConfigs ==
  {c \in [Range(config_keys(cycle)) -> BOOLEAN] : Cardinality({k \in DOMAIN c : c[k]}) \in {0, 1, 2, 5}}

\* C9: a driver execution that completes has started exactly 17 runs: the
\* all-real, the all-ideal, the 5 singleton and the 10 pair configurations,
\* each once; at no time has a configuration been started twice or a
\* configuration outside this set been started.
C9_SeventeenRuns ==
  /\ nstarted = Cardinality({r.config : r \in started})
  /\ {r.config : r \in started} \subseteq ExpectedConfigs
  /\ driver_pc = "done" =>
       /\ nstarted = 17
       /\ {r.config : r \in started} = ExpectedConfigs
       /\ {r.label : r \in started} = finished

\* a multiprocess execution on two workers has completed
C9_Witness ==
  /\ driver_pc = "done" /\ mode = "multi" /\ nworkers = 2 /\ nstarted = 17
  /\ Cardinality(finished) = 17

\* C10: in main_multiprocess the table returned by each pooled run holds
\* only the rows of that run, and the table assembled after the pool has
\* each (label, key) pair exactly once: 17 labels x 6 keys = 102 rows, for
\* every number of workers.
C10_EachRowOnce ==
  (mode = "multi" /\ driver_pc = "done") =>
    /\ \A t \in 1..Len(PoolTasks) : \A row \in Range(PoolResults[t]) : row.label = PoolTasks[t].label
    /\ Len(df_ed) = 102
    /\ \A i, j \in 1..Len(df_ed) : i # j => df_ed[i] # df_ed[j]


\* the pooled runs that are under way in a worker
ActiveTasks == {chunks[c].pos : c \in {d \in Running : chunks[d].active}}

RECURSIVE RowsOfTasks(_, _, _)
RowsOfTasks(df, ts, hi) ==
  IF ts > hi THEN df ELSE RowsOfTasks(SetRows(df, PoolTasks[ts].label, df_comps_index(cycle)), ts + 1, hi)

\* the table main_multiprocess works on after the pool, from the list of
\* tasks and the number of workers alone
ExpectedTable ==
  LET n == Len(PoolTasks)
      size == ChunkSize(n, nworkers)
      lo(t) == ((t - 1) \div size) * size + 1
      hi(t) == IF lo(t) + size - 1 < n THEN lo(t) + size - 1 ELSE n
  IN SetRows(<<>>, <<"real">>, df_comps_index(cycle))
       \o Flatten([t \in 1..n |-> RowsOfTasks(<<>>, lo(t), hi(t))])

\* the files of the base run and of all pooled runs, and the pool table
ExpectedFiles ==
  FilesOf(BaseRun(cycle, "df_ed_base")) \cup UNION {FilesOf(PoolTasks[t]) : t \in 1..Len(PoolTasks)}
    \cup {adex_ed_csv(cycle, unavoid)}

\* C11: in main_multiprocess the ledger assembly has begun only when every
\* pooled run has returned and every batch has been collected, and what it
\* works on and what it gives (the ledger, or the exception that ends it)
\* is fixed by the cycle and the number of workers, whatever the order in
\* which the pooled runs returned.
C11_LedgerAfterBarrier ==
  (mode = "multi" /\ driver_pc \in {"ledger", "ledger_error"}) =>
    /\ \A t \in 1..Len(PoolTasks) : PoolTasks[t].label \in finished
    /\ \A c \in 1..Len(chunks) : chunks[c].st = "done"
    /\ df_ed = ExpectedTable
    /\ LET err == LedgerError(cycle, mode, unavoid, ExpectedTable, ExpectedFiles)
       IN IF err = "" THEN driver_pc = "ledger" /\ ledger = df_adex_analysis(cycle, mode, ExpectedTable)
          ELSE driver_pc = "ledger_error" /\ ledger = [error |-> err]

\* the ledger of the heat pump has been assembled after a pooled run
\* returned before a task listed ahead of it
C11_Witness ==
  /\ mode = "multi" /\ cycle = "hp" /\ nworkers = 4 /\ overtaken
  /\ driver_pc = "ledger" /\ DOMAIN ledger = Range(hp_components)

\* C12: in the ledger a driver has assembled, for every component k,
\* ED_EN is the destruction of k in the run with only k real, ED_EX is
\* the destruction of k in the all-real run minus ED_EN, and ED_MEXO is
\* ED_EX minus the sum over the other components l of (destruction of k in
\* the run with k and l real, minus ED_EN).
C12_LedgerIdentities ==
  driver_pc = "ledger" =>
    \A k \in Range(components(cycle)) :
      LET rest == SelectSeq(components(cycle), LAMBDA l : l # k)
          pair(l) == set_adex_config(cycle, {k, l}).label
      IN /\ ledger[k].ED_EN = ED(<<k>>, k)
         /\ ledger[k].ED_EX = LinSub(ED(<<"real">>, k), ledger[k].ED_EN)
         /\ ledger[k].ED_MEXO =
              LinSub(ledger[k].ED_EX,
                     LinSum([i \in 1..Len(rest) |-> LinSub(ED(pair(rest[i]), k), ledger[k].ED_EN)]))

\* the ordered pairs of two different components of the cycle
OrderedPairs == {kl \in Range(components(cycle)) \X Range(components(cycle)) : kl[1] # kl[2]}
\* the label of the run in which exactly k and l are real
LabelOfPair(k, l) == set_adex_config(cycle, {k, l}).label

\* C30: where a driver assembles the ledger, for every ordered pair (k, l)
\* of different components the label the lookup settles on is the label of
\* the run with exactly k and l real, the row of k under it is in the
\* table, no other run has that label, and the ledger that comes out has
\* the destruction of k in that run as ED kl.
C30_PairLookupFindsItsRun ==
  (BuildsLedger(cycle, mode) /\ driver_pc \in {"done", "ledger", "ledger_error"}) =>
    \A kl \in OrderedPairs :
      LET k == kl[1]
          l == kl[2]
          k_l == PairLabel(df_ed, k, l)
          rest == SelectSeq(components(cycle), LAMBDA c : c # k)
      IN /\ k_l = LabelOfPair(k, l)
         /\ [label |-> k_l, key |-> k] \in Range(df_ed)
         /\ \A r \in started : r.label = k_l => r.config = [c \in Range(config_keys(cycle)) |-> c \in {k, l}]
         /\ driver_pc = "ledger" =>
              \E i \in 1..Len(rest) :
                /\ rest[i] = l
                /\ ledger[k].l[i].l = l
                /\ ledger[k].l[i].ED_kl = ED(LabelOfPair(k, l), k)

\* the ledger of the ORC has been assembled; the pair (ihx, exp) was found
\* under the label exp_ihx, in the order of the configuration keys
C30_Witness ==
  /\ cycle = "orc" /\ driver_pc = "ledger"
  /\ PairLabel(df_ed, "ihx", "exp") = <<"exp", "ihx">>
  /\ PairLabel(df_ed, "exp", "ihx") = <<"exp", "ihx">>
  /\ ledger["ihx"].l[3].l = "exp" /\ ledger["ihx"].l[3].ED_kl = ED(<<"exp", "ihx">>, "ihx")

\* ---- main_serial against main_multiprocess (checked under SpecDriver) ----
\* the runs of the two drivers in the order they list them
SerialRuns(cyc) == IF cyc = "hp" THEN hp_main_serial_runs ELSE orc_main_serial_runs
MultiRuns(cyc) == <<BaseRun(cyc, "df_ed_base")>> \o (IF cyc = "hp" THEN hp_pool_tasks ELSE orc_pool_tasks)
\* what a driver runs under each label
RunSet(runs) ==
  {[label |-> r.label, config |-> r.config, adex |-> r.adex, p_start |-> r.p_start] : r \in Range(runs)}

\* the rows of the runs lo..hi of a list, run after run; the labels of a
\* list differ, so no run overwrites the rows of another
RowsFrom(runs, lo, hi, cyc) ==
  Flatten([i \in 1..(hi - lo + 1) |->
             [j \in 1..Len(df_comps_index(cyc)) |-> [label |-> runs[lo + i - 1].label, key |-> df_comps_index(cyc)[j]]]])
\* the table of main_serial after its runs
SerialTable(cyc) == RowsFrom(SerialRuns(cyc), 1, Len(SerialRuns(cyc)), cyc)
\* the table of main_multiprocess on w processes after the pool
MultiTable(cyc, w) ==
  LET tasks == Tail(MultiRuns(cyc))
      n == Len(tasks)
      size == ChunkSize(n, w)
      lo(t) == ((t - 1) \div size) * size + 1
      hi(t) == IF lo(t) + size - 1 < n THEN lo(t) + size - 1 ELSE n
  IN RowsFrom(MultiRuns(cyc), 1, 1, cyc)
       \o Flatten([t \in 1..n |-> RowsFrom(tasks, lo(t), hi(t), cyc)])
\* the files the runs of a driver leave behind
FilesOfRuns(runs) == UNION {FilesOf(r) : r \in Range(runs)}
\* what stands in the place of the ledger when a driver has come to its end
LedgerOf(cyc, md, df, fs) ==
  LET err == LedgerError(cyc, md, unavoid, df, fs)
  IN IF ~BuildsLedger(cyc, md) THEN <<>>
     ELSE IF err = "" THEN df_adex_analysis(cyc, md, df) ELSE [error |-> err]
SerialLedger(cyc) == LedgerOf(cyc, "serial", SerialTable(cyc), FilesOfRuns(SerialRuns(cyc)))
MultiLedger(cyc, w) ==
  LedgerOf(cyc, "multi", MultiTable(cyc, w), FilesOfRuns(MultiRuns(cyc)) \cup {adex_ed_csv(cyc, unavoid)})

\* a driver has come to its end and no run has raised
DriverEnded == driver_pc \in {"ledger", "ledger_error"} \/ (driver_pc = "done" /\ ~BuildsLedger(cycle, mode))

\* C27: a driver that has come to its end has run, under every label, the
\* configuration, adex flag and starting pressure the other driver of the
\* cycle runs under it, and its table and its ledger are those the other
\* driver ends with (main_multiprocess on any number of processes).
C27_DriversEquivalent ==
  DriverEnded =>
    /\ RunSet(SerialRuns(cycle)) = RunSet(MultiRuns(cycle))
    /\ IF mode = "serial"
         THEN \A w \in 1..MaxWorkers : df_ed = MultiTable(cycle, w) /\ ledger = MultiLedger(cycle, w)
         ELSE df_ed = SerialTable(cycle) /\ ledger = SerialLedger(cycle)

\* ---- properties of the configuration builder (checked under SpecConfig) ----

\* C20: for every argument list the returned configuration marks as real
\* exactly the valid names that occur in it; every occurrence of another
\* name is answered by one warning and changes nothing; the label is the
\* real names in key order, 'ideal' when none is real and 'real' when all
\* five are; configuration and label are those of the set of valid names
\* given, whatever their order and repetition.
C20_ConfigFromArgs ==
  cfg_pc = "done" =>
    LET keys == config_keys(cycle)
        valid == Range(arg_seq) \cap Range(keys)
        IsReal(k) == k \in valid
    IN /\ DOMAIN config = Range(keys)
       /\ \A k \in Range(keys) : config[k] = (k \in valid)
       /\ Len(stdout) = Cardinality({i \in 1..Len(arg_seq) : arg_seq[i] \notin Range(keys)})
       /\ \A i \in 1..Len(stdout) : stdout[i][2] \notin Range(keys)
       /\ cfg_label = (IF valid = {} THEN <<"ideal">>
                       ELSE IF valid = Range(keys) THEN <<"real">>
                       ELSE SelectSeq(keys, IsReal))
       /\ set_adex_config(cycle, valid) = [config |-> config, label |-> cfg_label]

\* the heat-pump call ('val', 'tes', 'comp', 'val'): one warning, label comp_val
C20_Witness ==
  /\ cfg_pc = "done" /\ cycle = "hp" /\ arg_seq = <<"val", "tes", "comp", "val">>
  /\ cfg_label = <<"comp", "val">> /\ Len(stdout) = 1 /\ config["val"] /\ ~config["ihx"]

\* ---- properties of one run (checked under SpecRun) ----

\* C15: once a solve (or a property evaluation) of a run has failed, the
\* run has ended with that exception: it went through no further solve,
\* the table it was given holds no row of the run, and neither the
\* component file nor the stream file of the run has been written.
C15_FailureLeavesNoOutput ==
  failed =>
    /\ run_pc = "raised"
    /\ \A i \in 1..Len(df_ed) : df_ed[i].label # run_label
    /\ comps_csv(cycle, unavoid, run_label) \notin files
    /\ streams_csv(cycle, unavoid, run_label) \notin files

\* the last solve of a run that writes both files raised, with the rows
\* of an earlier run in the table
C15_Witness ==
  /\ failed /\ run_pc = "raised" /\ df_opt = <<>> /\ run_save /\ run_calc_epsilon
  /\ run_label = <<"comp", "cond">> /\ Len(df_ed) = 6

\* a row or a file record that carries a mark of a violating run
Flagged(rec) == "flag" \in DOMAIN rec

\* C16: a run whose last stream table fails an approach check has printed
\* the warning of each failed check and has returned all the same: its rows
\* are in the table and its files are written as asked, and these rows and
\* files are flagged as coming from a violating run.
C16_ViolationWarnedAndFlagged ==
  (run_pc = "returned" /\ df_opt.neg # {}) =>
    /\ \A i \in df_opt.neg : \E j \in 1..Len(stdout) : stdout[j] = approach_checks(cycle)[i].msg
    /\ \A k \in Range(df_comps_index(cycle)) : \E i \in 1..Len(df_ed) : df_ed[i] = [label |-> run_label, key |-> k]
    /\ RunFiles(cycle, unavoid, run_label, run_calc_epsilon, run_save) \subseteq files
    /\ \A i \in 1..Len(df_ed) : df_ed[i].label = run_label => Flagged(df_ed[i])
    /\ \A f \in RunFiles(cycle, unavoid, run_label, run_calc_epsilon, run_save) : Flagged(f)

\* ---- claims on a run with its search (checked under SpecAdex) ----
\* the arguments of a solve other than the pressure
SolveFlags(s) == [config |-> s.config, adex |-> s.adex, unavoid |-> s.unavoid]
WithinTolerance(pinch) == Abs(pinch - target_min_td) <= search_tolerance

\* C23: when a run has reached the exergy analysis, the table it analyses
\* is that of a solve at the pressure the search returned, made with the
\* configuration, adex and unavoid of every solve before it, and the pinch
\* difference at that pressure is within the tolerance of the target:
\* either the search made no step, returned the start pressure, and the
\* first solve had met the tolerance, or the last solve of the search was
\* made at the returned pressure and met it.
C23_AnalysedAtReturnedPressure ==
  run_pc = "exan" =>
    LET n == Len(solves)
    IN /\ search_pc = "done"
       /\ n = step + 2
       /\ df_opt.of = solves[n]
       /\ df_opt.of.p = p_opt
       /\ \A i \in 1..n : SolveFlags(solves[i]) = SolveFlags(df_opt.of)
       /\ SolveFlags(df_opt.of) = [config |-> config, adex |-> adex, unavoid |-> unavoid]
       /\ WithinTolerance(df_opt.of.pinch)
       /\ solves[n - 1].p = p_opt /\ WithinTolerance(solves[n - 1].pinch)
       /\ step = 0 => p_opt = p_opt_start

\* the search moved the pressure and its third solve met the tolerance
C23_Witness ==
  /\ run_pc = "exan" /\ step = 3 /\ p_opt # p_opt_start
  /\ df_opt.of.p = p_opt /\ ~WithinTolerance(min_t_diff_start)

\* ---- properties of post_process_adex_hp (checked under SpecPost) ----

\* the four columns the function computes, for one component
PostDefinitions(k) ==
  LET r == final_results[k]
  IN /\ r.ED = results_base[k].ED /\ r.ED_EN = results_base[k].ED_EN /\ r.ED_EX = results_base[k].ED_EX
     /\ r.ED_UN = results_unavoid[k].ED
     /\ r.ED_EN_UN = results_unavoid[k].ED_EN
     /\ r.ED_AV = r.ED - r.ED_UN
     /\ r.ED_EN_AV = r.ED_EN - r.ED_EN_UN
     /\ r.ED_EX_AV = r.ED_AV - r.ED_EN_AV

\* C13 as stated: for every component the four definitions hold, and with
\* them ED = ED_UN + ED_AV, ED_AV = ED_EN_AV + ED_EX_AV and
\* ED_EX_AV = ED_EX - ED_EX_UN.
C13_Original ==
  post_pc \in {"computed", "done"} =>
    \A k \in DOMAIN final_results :
      /\ PostDefinitions(k)
      /\ final_results[k].ED = final_results[k].ED_UN + final_results[k].ED_AV
      /\ final_results[k].ED_AV = final_results[k].ED_EN_AV + final_results[k].ED_EX_AV
      /\ final_results[k].ED_EX_AV = final_results[k].ED_EX - final_results[k].ED_EX_UN

\* C13 amended: for every component the four definitions hold, and with
\* them ED = ED_UN + ED_AV and ED_AV = ED_EN_AV + ED_EX_AV; ED_EX_AV and
\* ED_EX - ED_EX_UN differ by at most 0.01 kW, because ED_EX is read from
\* the ledger file, where the difference ED - ED_EN was rounded, while
\* the other columns are differences of rounded values.
C13_Amended ==
  post_pc \in {"computed", "done"} =>
    \A k \in DOMAIN final_results :
      /\ PostDefinitions(k)
      /\ final_results[k].ED = final_results[k].ED_UN + final_results[k].ED_AV
      /\ final_results[k].ED_AV = final_results[k].ED_EN_AV + final_results[k].ED_EX_AV
      /\ final_results[k].ED_EX_AV - (final_results[k].ED_EX - final_results[k].ED_EX_UN) \in {-1, 0, 1}

\* the table has been written with a component whose exogenous avoidable
\* part is 0.01 kW off the difference of the two exogenous columns
C13_Witness ==
  /\ post_pc = "done" /\ final_results_csv \in files
  /\ \E k \in DOMAIN final_results :
       /\ final_results[k].ED_EX_AV # final_results[k].ED_EX - final_results[k].ED_EX_UN
       /\ final_results[k].ED_UN # 0 /\ final_results[k].ED_AV # 0

\* ---- claims on func_fix.heat_exchanger ----
EnergyBalanceHolds == hx_m.hot * (hx_h.hot_in - hx_h.hot_out) = hx_m.cold * (hx_h.cold_out - hx_h.cold_in)

\* C25: after heat_exchanger has returned from a non-ideal call with both
\* mass flows known (cases (1) and (2) of the decision vector), the four
\* enthalpies satisfy m_hot * (h_hot_in - h_hot_out) = m_cold * (h_cold_out - h_cold_in)
C25_EnergyBalanceClosed ==
  (hx_pc = "returned" /\ hx_dec[9] = FALSE) => EnergyBalanceHolds

\* ---- claims on the execution of the module hp_simult.py ----
\* C21: post_process_adex_hp has been called only when the driver pass
\* with unavoid off and the driver pass with unavoid on have both
\* completed in this execution of the module.
C21_PostAfterBothPasses == post_pc # "idle" => passes = {FALSE, TRUE}
====
